---- MODULE Spec2Model ----
(***************************************************************************)
(* The runner-pool policies of inference/benchmark/rayBench.py:            *)
(* statusList / pickActorBalanced / PolicyBalance / PolicyExclusive, as    *)
(* driven by the threads of the runnerPool actor (runnerPool.run).         *)
(*                                                                         *)
(* Atomicity.  Every `with slist.reservedCv:` block is one action (the     *)
(* status-list lock makes it atomic; reservedCv.wait() and ray.wait()      *)
(* split it).  PolicyExclusive.lock is held across calls that can wait, so *)
(* each call records whether it holds it.  PolicyBalance.update writes     *)
(* status.ref before it takes the status-list lock, so that write is its   *)
(* own step.                                                               *)
(*                                                                         *)
(* The threads of the actor are interchangeable, so the calls in progress  *)
(* are kept as a bag of call records (one per running runnerPool.run).     *)
(*                                                                         *)
(* Further parts, each with a specification of its own: the statistics of  *)
(* a pool (SpecStats), the construction of a runnerPool and its calls in   *)
(* mode 'task' or with PolicyRR (SpecPool), the calls of run of a balance  *)
(* pool with their inputs and outputs (SpecRun), _runOne (SpecPipe), the   *)
(* completion-queue messages of a query (SpecQuery), handleCompletion      *)
(* (SpecCompletion), the call queue of a runActor that is scaled down      *)
(* (SpecWorker), PolicyExclusive with numbered calls (SpecOrdered) or a    *)
(* fixed sequence of tenants (SpecWarm), a PolicyBalance whose workers    *)
(* are all BUSY (SpecPair), the server's barrier (SpecBarrier), and        *)
(* PolicyExclusive under fair scheduling (SpecLive) or with more threads   *)
(* (SpecCrowd).                                                            *)
(***************************************************************************)
EXTENDS Integers, Sequences, FiniteSets, Bags, TLC

\* ---- bounds of the model
NThreads == 2        \* threads of the runnerPool actor (max_concurrency)
NTenants == 3        \* distinct clientIDs
MaxRunners == 2      \* largest nRunner a PolicyExclusive is constructed with
BalanceRunners == 1  \* nRunner, the constructor argument of a stand-alone PolicyBalance
MaxRequests == 4     \* runnerPool.run calls issued in total
MaxStats == 2        \* requests whose statistics the workers record
MaxGetStats == 2     \* calls of the policy's getStats
MaxScaleDowns == 2   \* workers removed from the pool while statistics are collected
PoolRunners == 3     \* largest nRunner a runnerPool is constructed with
PoolRequests == 9    \* runnerPool.run calls issued to one runnerPool
MaxInputs == 2       \* largest len(inputRefs) of a runnerPool.run call
MaxReturns == 2      \* largest nReturn of a runnerPool.run call
RunRequests == 3     \* runnerPool.run calls whose inputs and outputs are followed
MaxOut == 2          \* largest nOutPre, nOutRun, nOutPost of a model class

\* ---- actorStatus
RESERVED == 0
IDLE == 1
BUSY == 2

Tenants == 1..NTenants
\* status objects (and the actor created with each): those in the lists
\* plus those popped while a caller still holds them as a handle
StatusIds == 1..(MaxRunners + BalanceRunners + NThreads)
\* object-store references something can still hold: one per status object,
\* one per waiting caller, and those a caller collected before ray.wait
Refs == 1..((MaxRunners + BalanceRunners) * (NThreads + 1) + 2 * NThreads)
None == 0
\* the sList of a stand-alone PolicyBalance (runner_policy = 'balance')
BalancePool == 1

VARIABLES
    maxRunners,  \* PolicyExclusive.maxRunners
    nRunners,    \* PolicyExclusive.nRunners
    clientPools, \* keys of PolicyExclusive.clientPools
    statuses,    \* pool -> sList.statuses (ids of status objects); actors is parallel
    nReserved,   \* pool -> sList.nReserved
    st,          \* status object -> [state, ref]
    ready,       \* object-store references known to be ready
    issued,      \* runnerPool.run calls started so far
    th           \* bag of the calls of runnerPool.run in progress

\* the statistics of one PolicyBalance pool
VARIABLES
    workerStats,       \* worker -> statistics in runActor.stats (their number)
    pendingActorStats, \* PolicyBalance.pendingActorStats: refs to getStats results
    toKill,            \* scaleDown's local: the worker popped, its stats not yet asked for
    gs,                \* the call of PolicyBalance.getStats in progress
    audit              \* history: what was recorded, returned and asked for so far

\* the runnerPool actor and its round-robin policy
VARIABLES
    pool,              \* runnerPool: its benchConfig, how construction went, calls ended
    rr                 \* PolicyRR: actors (their number), last, and the actors handed out

\* one invocation of _runOne
VARIABLES
    pipe               \* its arguments, where it ended, and what it returned

\* the queries of a driver, the completion handler, and one runActor
VARIABLES
    query,             \* the query in progress: its stages, the completion queue, the model cache
    handler,           \* handleCompletion: its locals, the queue it reads, what it acknowledged
    worker             \* a runActor: the calls submitted to it, in order, and what it did

\* the server's barrier
VARIABLES
    server             \* serverLoop: readyClients, the messages to come, what was sent

policyVars == <<maxRunners, nRunners, clientPools, statuses, nReserved, st, ready, issued, th>>
statsVars == <<workerStats, pendingActorStats, toKill, gs, audit>>
\* what the calls of runnerPool.run leave alone
queryVars == <<query, handler, worker, server>>
restVars == <<statsVars, pool, rr, pipe, queryVars>>

vars == <<maxRunners, nRunners, clientPools, statuses, nReserved, st, ready, issued, th,
          workerStats, pendingActorStats, toKill, gs, audit, pool, rr, pipe,
          query, handler, worker, server>>

\* actorStatus.__init__
NewStatus == [state |-> IDLE, ref |-> None]

\* a call of runnerPool.run: where it is (pc), the pool it works on, its
\* locals, whether it is inside a `with self.lock:` of PolicyExclusive, and
\* the call of PolicyBalance.getRunner it is in (mode):
\*   "fast"  PolicyExclusive.getRunner line 511 (timeout = 0.01)
\*   "grow"  _makeRoom line 465, "evict" _makeRoom line 491 (both inside the lock)
\*   "block" _makeRoom line 495
\*   "bal"   runnerPool.run line 572 on a stand-alone PolicyBalance
NewCall(c, m) == [pc |-> "pick", mode |-> m, pool |-> c, idx |-> None, handle |-> None,
                  outstanding |-> {}, ref |-> None, locked |-> FALSE, candidate |-> None]

Calls == BagToSet(th)

\* PolicyExclusive.lock.locked()
LockHeld == \E r \in Calls : r.locked

\* ---- helpers over a status list

Range(s) == {s[i] : i \in 1..Len(s)}

\* status objects something still refers to
Live(stats, calls) ==
    UNION {Range(stats[c]) : c \in DOMAIN stats} \cup
    ({r.handle : r \in BagToSet(calls)} \ {None})

\* unreferenced status objects are garbage: forget their contents
Collect(s, stats, calls) ==
    [i \in StatusIds |-> IF i \in Live(stats, calls) THEN s[i] ELSE NewStatus]

FreshStatus == CHOOSE i \in StatusIds : i \notin Live(statuses, th)

\* references something still holds
Held(s, calls) ==
    ({s[i].ref : i \in StatusIds} \cup {r.ref : r \in BagToSet(calls)}
       \cup UNION {r.outstanding : r \in BagToSet(calls)}) \ {None}

\* readiness of a reference nothing holds any more is forgotten
Kept(rdy, s, calls) == rdy \cap Held(s, calls)

\* the reference of a newly submitted request
FreshRef == CHOOSE r \in Refs : r \notin Held(st, th)

\* statusList.updateState: the change of nReserved
updateStateDelta(old, new) ==
    IF old = RESERVED THEN -1
    ELSE IF new = RESERVED THEN 1
    ELSE 0

\* pickActorBalanced, the first scan: index of the first IDLE status, or None
FirstIdle(c) ==
    IF \E i \in 1..Len(statuses[c]) : st[statuses[c][i]].state = IDLE
    THEN CHOOSE i \in 1..Len(statuses[c]) :
            /\ st[statuses[c][i]].state = IDLE
            /\ \A j \in 1..(i-1) : st[statuses[c][j]].state # IDLE
    ELSE None

\* pickActorBalanced, the first scan: refs of the BUSY statuses
Outstanding(c) ==
    {st[statuses[c][i]].ref : i \in {j \in 1..Len(statuses[c]) : st[statuses[c][j]].state = BUSY}}

\* pickActorBalanced, the second scan for one ready ref: statuses it turns IDLE
Matches(c, r) ==
    {i \in 1..Len(statuses[c]) :
        st[statuses[c][i]].state # IDLE /\ st[statuses[c][i]].ref = r}

\* the first status whose `assert status.state == BUSY` fails, or None
FailedAssert(c, r) ==
    LET bad == {i \in Matches(c, r) : st[statuses[c][i]].state # BUSY}
    IN IF bad = {} THEN None ELSE CHOOSE i \in bad : \A j \in bad : i <= j

\* fault injection for C1: a second scan that also takes a RESERVED status
IdleRunnerAlsoReserved(c, r) ==
    LET hit == {i \in 1..Len(statuses[c]) :
                   st[statuses[c][i]].state # BUSY \/ i \in Matches(c, r)}
    IN IF hit = {} THEN None ELSE CHOOSE i \in hit : \A j \in hit : j <= i

\* fault injection for C29: the first worker, whatever it is doing
IdleRunnerFirstWorker(c, r) == IF Len(statuses[c]) = 0 THEN None ELSE 1

\* fault injection for C33: a second scan that stops at the first status
\* seen IDLE or freed
IdleRunnerFirstSeen(c, r) ==
    LET hit == {i \in 1..Len(statuses[c]) :
                   st[statuses[c][i]].state = IDLE \/ i \in Matches(c, r)}
    IN IF hit = {} THEN None ELSE CHOOSE i \in hit : \A j \in hit : i <= j

\* idleRunner after the second scan: the last status seen IDLE or freed
IdleRunner(c, r) ==
    LET hit == {i \in 1..Len(statuses[c]) :
                   st[statuses[c][i]].state = IDLE \/ i \in Matches(c, r)}
    IN IF hit = {} THEN None ELSE CHOOSE i \in hit : \A j \in hit : j <= i

\* PolicyExclusive._makeRoom: the eviction candidates
MaxLength ==
    LET lens == {Len(statuses[c]) : c \in clientPools} \cup {0}
    IN CHOOSE m \in lens : \A k \in lens : k <= m

\* fault injection for C8: `candidate = candidates[0]`, no lot is drawn
CandidatesFirstOnly ==
    {c \in clientPools :
        /\ Len(statuses[c]) = MaxLength
        /\ \A d \in clientPools : Len(statuses[d]) = MaxLength => c <= d}

\* fault injection for C28: any tenant can be the victim
CandidatesAnyTenant == clientPools

Candidates == {c \in clientPools : Len(statuses[c]) = MaxLength}

\* ---- steps of a call

\* the call in state r moves to state r2
Set(r, r2) == (th (-) SetToBag({r})) (+) SetToBag({r2})

\* the call in state r ends
Drop(r) == th (-) SetToBag({r})

\* a step of a call that changes only its locals
Local(r, r2) ==
    /\ th' = Set(r, r2)
    /\ ready' = Kept(ready, st, th')
    /\ UNCHANGED <<maxRunners, nRunners, clientPools, statuses, nReserved, st, issued>>

\* an exception propagates out of runnerPool.run: the `with` blocks release
\* their locks and the thread is free for the next call
Raise(r) ==
    /\ th' = Drop(r)
    /\ st' = Collect(st, statuses, th')
    /\ ready' = Kept(ready, st', th')
    /\ UNCHANGED <<maxRunners, nRunners, clientPools, statuses, nReserved, issued>>

\* fault injection for C18: the caller goes on without a worker
ReturnNoneGoesOn(r) == Local(r, [r EXCEPT !.pc = "update", !.ref = FreshRef])

\* pickActorBalanced returned None, so PolicyBalance.getRunner returns (None, None)
ReturnNone(r) ==
    CASE r.mode = "fast" ->
            \* PolicyExclusive.getRunner line 516: runner is None, call _makeRoom
            Local(r, [r EXCEPT !.pc = "makeRoom", !.idx = None, !.handle = None,
                               !.outstanding = {}, !.ref = None, !.locked = FALSE,
                               !.candidate = None])
      [] r.mode = "block" ->
            \* _makeRoom line 499: runner[0] is None, continue
            Local(r, [r EXCEPT !.pc = "makeRoom", !.idx = None, !.handle = None,
                               !.outstanding = {}, !.ref = None, !.locked = FALSE,
                               !.candidate = None])
      [] r.mode \in {"grow", "evict"} ->
            \* _makeRoom returns (None, None): getRunner line 518 raises RuntimeError
            Raise(r)
      [] OTHER ->
            \* runnerPool.run line 573: assert runActor is not None
            Raise(r)

\* pickActorBalanced lines 323-333, under the status-list lock
Scan(r) ==
    LET c == r.pool
        i == FirstIdle(c)
    IN IF i # None
       THEN /\ st' = [st EXCEPT ![statuses[c][i]].state = RESERVED]
            /\ nReserved' = [nReserved EXCEPT ![c] = @ + updateStateDelta(IDLE, RESERVED)]
            /\ th' = Set(r, [r EXCEPT !.pc = "lookup", !.idx = i])
            /\ UNCHANGED <<maxRunners, nRunners, clientPools, statuses, ready, issued>>
       ELSE IF Outstanding(c) = {}
       THEN Raise(r)
       ELSE Local(r, [r EXCEPT !.pc = "raywait", !.outstanding = Outstanding(c)])

\* pickActorBalanced lines 316-333: entry of the `while True` loop
Pick(r) ==
    /\ r.pc = "pick"
    /\ LET c == r.pool
       IN IF Len(statuses[c]) = 0
          THEN ReturnNone(r)
          ELSE IF nReserved[c] = Len(statuses[c])
          THEN Local(r, [r EXCEPT !.pc = "cvwait"])
          ELSE Scan(r)

\* reservedCv.wait() returned: the `while slist.nReserved == len(...)` test again
CvWoken(r) ==
    /\ r.pc = "cvwoken"
    /\ LET c == r.pool
       IN IF nReserved[c] = Len(statuses[c])
          THEN Local(r, [r EXCEPT !.pc = "cvwait"])
          ELSE Scan(r)

\* does this call of PolicyBalance.getRunner carry a timeout?
HasTimeout(r) == r.mode = "fast"

\* ray.wait(outstanding, timeout=timeout), num_returns = 1: the possible `done`
\* lists, one ready ref or (only with a timeout, and only if no ref is ready)
\* none.  The actor of an outstanding ref may have finished at any time since
\* the request was submitted; a ref counts as ready from the first ray.wait
\* that returns it (nothing can tell an earlier moment apart), and stays ready.
RayWait(r) ==
    r.outstanding \cup
        (IF HasTimeout(r) /\ r.outstanding \cap ready = {} THEN {None} ELSE {})

\* pickActorBalanced lines 338-363: the second scan under the status-list
\* lock, with the `done` that ray.wait returned
SecondScan(r, done) ==
    LET c == r.pool
        freed == {statuses[c][i] : i \in Matches(c, done)}
        idleRunner == IdleRunner(c, done)
    IN IF done = None
       THEN ReturnNone(r)
       ELSE IF FailedAssert(c, done) # None
       THEN Raise(r)
       ELSE IF idleRunner = None
       THEN \* our done list is stale, try again
            /\ th' = Set(r, [r EXCEPT !.pc = "pick", !.outstanding = {}])
            /\ ready' = Kept(ready \cup {done}, st, th')
            /\ UNCHANGED <<maxRunners, nRunners, clientPools, statuses, nReserved, st, issued>>
       ELSE /\ st' = [s \in StatusIds |->
                        IF s = statuses[c][idleRunner] THEN [state |-> RESERVED, ref |-> None]
                        ELSE IF s \in freed THEN [state |-> IDLE, ref |-> None]
                        ELSE st[s]]
            /\ nReserved' = [nReserved EXCEPT ![c] = @ + updateStateDelta(IDLE, RESERVED)]
            /\ th' = Set(r, [r EXCEPT !.pc = "lookup", !.idx = idleRunner, !.outstanding = {}])
            /\ ready' = Kept(ready \cup {done}, st', th')
            /\ UNCHANGED <<maxRunners, nRunners, clientPools, statuses, issued>>

\* pickActorBalanced lines 336-363: ray.wait, then the second scan
PostWait(r) ==
    /\ r.pc = "raywait"
    /\ \E done \in RayWait(r) : SecondScan(r, done)

\* PolicyBalance.getRunner lines 413-417: look the index up under the lock
\* (the caller's `with self.lock:` block, if any, ends with the return);
\* runnerPool.run lines 575-578 then submits the request to the actor
Lookup(r) ==
    /\ r.pc = "lookup"
    /\ LET c == r.pool
       IN IF r.idx > Len(statuses[c])
          THEN Raise(r)
          ELSE /\ th' = Set(r, [r EXCEPT !.pc = "update", !.idx = None,
                                         !.handle = statuses[c][r.idx],
                                         !.ref = FreshRef, !.locked = FALSE])
               /\ UNCHANGED <<maxRunners, nRunners, clientPools, statuses, nReserved, st, ready, issued>>

\* PolicyExclusive.update takes the policy lock; PolicyBalance.update lines
\* 420-424 then writes status.ref, not yet under the status-list lock
UpdateRef(r) ==
    /\ r.pc = "update"
    /\ r.mode # "bal" => ~LockHeld
    /\ st' = [st EXCEPT ![r.handle].ref = r.ref]
    /\ th' = Set(r, [r EXCEPT !.pc = "updateState", !.locked = (r.mode # "bal")])
    /\ ready' = Kept(ready, st', th')
    /\ UNCHANGED <<maxRunners, nRunners, clientPools, statuses, nReserved, issued>>

\* reservedCv.notify(): wake one waiter of the pool, if there is one
Notified(calls, c) ==
    LET ws == {w \in BagToSet(calls) : w.pc = "cvwait" /\ w.pool = c}
    IN IF ws = {} THEN {calls}
       ELSE {(calls (-) SetToBag({w})) (+) SetToBag({[w EXCEPT !.pc = "cvwoken"]}) : w \in ws}

\* fault injection for C16: an update that leaves the status as it is
UpdateStateKeepsReserved(r) ==
    /\ r.pc = "updateState"
    /\ th' = Set(r, [r EXCEPT !.pc = "await", !.handle = None, !.locked = FALSE])
    /\ st' = Collect(st, statuses, th')
    /\ ready' = Kept(ready, st', th')
    /\ UNCHANGED <<maxRunners, nRunners, clientPools, statuses, nReserved, issued>>

\* PolicyBalance.update lines 425-427, under the status-list lock; then
\* runnerPool.run lines 587-591 waits for the outputs
UpdateState(r) ==
    /\ r.pc = "updateState"
    /\ LET c == r.pool
           h == r.handle
           th2 == Set(r, [r EXCEPT !.pc = "await", !.handle = None, !.locked = FALSE])
           st2 == [st EXCEPT ![h].state = BUSY]
       IN /\ nReserved' = [nReserved EXCEPT ![c] = @ + updateStateDelta(st[h].state, BUSY)]
          /\ st' = Collect(st2, statuses, th2)
          /\ th' \in Notified(th2, c)
    /\ ready' = Kept(ready, st', th')
    /\ UNCHANGED <<maxRunners, nRunners, clientPools, statuses, issued>>

\* runnerPool.run lines 587-591: ray.wait on the outputs returns once the
\* actor has finished the request, and run returns them
Return(r) ==
    /\ r.pc = "await"
    /\ th' = Drop(r)
    /\ ready' = Kept(ready \cup {r.ref}, st, th')
    /\ UNCHANGED <<maxRunners, nRunners, clientPools, statuses, nReserved, st, issued>>

\* ---- PolicyExclusive

\* fault injection for C35: a tenant seen for the first time is given a
\* sub-pool of one worker
GetRunnerExclusiveOneWorker(c) ==
    /\ BagCardinality(th) < NThreads
    /\ issued < MaxRequests
    /\ ~LockHeld
    /\ c \in clientPools \/ \A d \in Tenants \ clientPools : c <= d
    /\ clientPools' = clientPools \cup {c}
    /\ statuses' = IF c \in clientPools THEN statuses
                   ELSE [statuses EXCEPT ![c] = Append(@, FreshStatus)]
    /\ th' = th (+) SetToBag({NewCall(c, "fast")})
    /\ issued' = issued + 1
    /\ UNCHANGED <<maxRunners, nRunners, nReserved, st, ready>>

\* runnerPool.run -> PolicyExclusive.getRunner lines 504-511
GetRunnerExclusive(c) ==
    /\ BagCardinality(th) < NThreads
    /\ issued < MaxRequests
    /\ ~LockHeld
    /\ c \in clientPools \/ \A d \in Tenants \ clientPools : c <= d
    /\ clientPools' = clientPools \cup {c}
    /\ th' = th (+) SetToBag({NewCall(c, "fast")})
    /\ issued' = issued + 1
    /\ UNCHANGED <<maxRunners, nRunners, statuses, nReserved, st, ready>>

\* PolicyBalance.scaleUp
scaleUp(c) == [statuses EXCEPT ![c] = Append(@, FreshStatus)]

\* fault injection for C6: a scaleDown that keeps the worker
scaleDownKeepsWorker(c) == statuses

\* fault injection for C7: a scaleDown that removes two workers
scaleDownTwo(c) == [statuses EXCEPT ![c] = SubSeq(@, 1, Len(@) - 2)]

\* PolicyBalance.scaleDown
scaleDown(c) == [statuses EXCEPT ![c] = SubSeq(@, 1, Len(@) - 1)]

\* PolicyExclusive._makeRoom lines 456-495, up to the first call that
\* changes a pool
MakeRoom(r) ==
    /\ r.pc = "makeRoom"
    /\ ~LockHeld
    /\ LET c == r.pool
           clientLength == Len(statuses[c])
       IN IF nRunners < maxRunners
          THEN /\ statuses' = scaleUp(c)
               /\ nRunners' = nRunners + 1
               /\ th' = Set(r, [r EXCEPT !.pc = "pick", !.mode = "grow", !.locked = TRUE])
               /\ UNCHANGED <<maxRunners, clientPools, nReserved, st, ready, issued>>
          ELSE IF clientLength < MaxLength
          THEN \E candidate \in Candidates :
               /\ statuses' = scaleDown(candidate)
               /\ th' = Set(r, [r EXCEPT !.pc = "scaleUp", !.mode = "evict", !.locked = TRUE,
                                              !.candidate = candidate])
               /\ st' = Collect(st, statuses', th')
               /\ ready' = Kept(ready, st', th')
               /\ UNCHANGED <<maxRunners, nRunners, clientPools, nReserved, issued>>
          ELSE Local(r, [r EXCEPT !.pc = "pick", !.mode = "block"])

\* PolicyExclusive._makeRoom line 489: clientPool.scaleUp() after the eviction
ScaleUpAfterEviction(r) ==
    /\ r.pc = "scaleUp"
    /\ statuses' = scaleUp(r.pool)
    /\ th' = Set(r, [r EXCEPT !.pc = "pick", !.candidate = None])
    /\ UNCHANGED <<maxRunners, nRunners, clientPools, nReserved, st, ready, issued>>

\* ---- statistics: runActor.getStats, PolicyBalance.scaleDown and getStats
\*
\* pendingActorStats and the workers' stats are written by scaleDown and read
\* only by getStats, and getRunner / update never look at them, so they are
\* followed for one pool (BalancePool) on their own: the pool is scaled by its
\* owner while the driver calls getStats.  PolicyBalance.getStats takes no
\* lock, so each of its statements is a step, and so is each statement of
\* scaleDown that touches what getStats reads.  A worker runs its calls in the
\* order they were submitted, so the result of getStats.remote() is fixed when
\* it is submitted.

\* a reference to the result of runActor.getStats: the statistics it carries
\* and, for a reference made by scaleDown, which scaleDown made it
StatsRef(n, d) == [n |-> n, down |-> d]

RECURSIVE SumStats(_)
SumStats(refs) ==
    IF refs = <<>> THEN 0 ELSE Head(refs).n + SumStats(Tail(refs))

\* the scaleDown references in a list of references
DownRefs(refs) == {refs[i].down : i \in 1..Len(refs)} \ {None}

\* Python values, kept with their type: None, one object reference, or a list
\* of references
PyNone == [kind |-> "none", len |-> 0]
PyRef == [kind |-> "ref", len |-> 1]
PyList(k) == [kind |-> "list", len |-> k]
\* an exception in place of a value
PyRaise(e) == [kind |-> e, len |-> 0]
Exceptions == {"AssertionError", "AttributeError"}

\* no invocation of _runOne is followed
NoPipe == [pc |-> "none"]

\* no query, completion handler, runActor or server is followed
NoQueries ==
    /\ query = [pc |-> "none"]
    /\ handler = [pc |-> "none"]
    /\ worker = [pc |-> "none"]
    /\ server = [pc |-> "none"]

\* a PolicyRR that hands out workers of `n` actors
NewRR(n) == [n |-> n, last |-> 0, order |-> <<>>]

\* a runnerPool constructed in mode 'actor' with the given runner_policy
PoolOf(policy) ==
    /\ pool = [state |-> "ready", mode |-> "actor", policy |-> policy, made |-> policy,
               returned |-> 0, raised |-> 0]
    /\ rr = NewRR(0)
    /\ pipe = NoPipe
    /\ NoQueries

\* the statistics are not followed
NoStats ==
    /\ workerStats = <<>>
    /\ pendingActorStats = <<>>
    /\ toKill = None
    /\ gs = <<>>
    /\ audit = <<>>

\* nothing was collected yet
StatsInit ==
    /\ workerStats = [w \in StatusIds |-> 0]
    /\ pendingActorStats = <<>>
    /\ toKill = None
    /\ gs = [pc |-> "idle", i |-> None, actorStats |-> <<>>]
    /\ audit = [recorded |-> 0, returned |-> 0, calls |-> 0, downs |-> 0,
                included |-> [d \in 1..MaxScaleDowns |-> 0],
                clean |-> 0, lastClean |-> 0, lastResult |-> 0]

\* runActor.runNative / runKaas: a worker of the pool (or one that was popped
\* and still runs its outstanding requests) records a request's statistics
RunRecordsStats(w) ==
    /\ w \in Range(statuses[BalancePool]) \cup ({toKill} \ {None})
    /\ audit.recorded < MaxStats
    /\ workerStats' = [workerStats EXCEPT ![w] = @ + 1]
    /\ audit' = [audit EXCEPT !.recorded = @ + 1, !.clean = 0]
    /\ UNCHANGED <<policyVars, pendingActorStats, toKill, gs>>

\* PolicyBalance.scaleUp, called by the pool's owner
StatsScaleUp ==
    /\ toKill = None
    /\ Len(statuses[BalancePool]) < MaxRunners
    /\ statuses' = scaleUp(BalancePool)
    /\ UNCHANGED <<maxRunners, nRunners, clientPools, nReserved, st, ready, issued, th, statsVars>>

\* PolicyBalance.scaleDown lines 398-400: pop the tail status and actor
StatsScaleDownPop ==
    /\ toKill = None
    /\ Len(statuses[BalancePool]) > 0
    /\ audit.downs < MaxScaleDowns
    /\ toKill' = statuses[BalancePool][Len(statuses[BalancePool])]
    /\ statuses' = scaleDown(BalancePool)
    /\ UNCHANGED <<maxRunners, nRunners, clientPools, nReserved, st, ready, issued, th,
                   workerStats, pendingActorStats, gs, audit>>

\* PolicyBalance.scaleDown lines 402-403: append toKill.getStats.remote()
StatsScaleDownAppend ==
    /\ toKill # None
    /\ pendingActorStats' =
          Append(pendingActorStats, StatsRef(workerStats[toKill], audit.downs + 1))
    /\ workerStats' = [workerStats EXCEPT ![toKill] = 0]
    /\ audit' = [audit EXCEPT !.downs = @ + 1]
    /\ toKill' = None
    /\ UNCHANGED <<policyVars, gs>>

\* the driver calls getStats (one call at a time: it waits for each result)
GetStatsCall ==
    /\ gs.pc = "idle"
    /\ audit.calls < MaxGetStats
    /\ gs' = [pc |-> "loop", i |-> 1, actorStats |-> <<>>]
    /\ audit' = [audit EXCEPT !.calls = @ + 1, !.clean = IF @ < 2 THEN @ + 1 ELSE @]
    /\ UNCHANGED <<policyVars, workerStats, pendingActorStats, toKill>>

\* PolicyBalance.getStats lines 433-434: one turn of `for actor in self.actors`
GetStatsLoop ==
    /\ gs.pc = "loop"
    /\ IF gs.i <= Len(statuses[BalancePool])
       THEN LET actor == statuses[BalancePool][gs.i]
            IN /\ pendingActorStats' =
                     Append(pendingActorStats, StatsRef(workerStats[actor], None))
               /\ workerStats' = [workerStats EXCEPT ![actor] = 0]
               /\ gs' = [gs EXCEPT !.i = @ + 1]
       ELSE /\ gs' = [gs EXCEPT !.pc = "get", !.i = None]
            /\ UNCHANGED <<workerStats, pendingActorStats>>
    /\ UNCHANGED <<policyVars, toKill, audit>>

\* PolicyBalance.getStats lines 436-438: ray.get(self.pendingActorStats), merge
GetStatsGet ==
    /\ gs.pc = "get"
    /\ gs' = [gs EXCEPT !.pc = "reset", !.actorStats = pendingActorStats]
    /\ UNCHANGED <<policyVars, workerStats, pendingActorStats, toKill, audit>>

\* PolicyBalance.getStats lines 440-441: reset pendingActorStats, return stats
GetStatsReturn ==
    /\ gs.pc = "reset"
    /\ pendingActorStats' = <<>>
    /\ gs' = [pc |-> "idle", i |-> None, actorStats |-> <<>>]
    /\ audit' = [audit EXCEPT
                    !.returned = @ + SumStats(gs.actorStats),
                    !.included = [d \in 1..MaxScaleDowns |->
                                     IF d \in DownRefs(gs.actorStats) THEN @[d] + 1 ELSE @[d]],
                    !.lastClean = audit.clean,
                    !.lastResult = SumStats(gs.actorStats)]
    /\ UNCHANGED <<policyVars, workerStats, toKill>>

\* PolicyBalance.__init__(nRunner), nothing collected yet
InitStats ==
    /\ maxRunners \in 1..MaxRunners
    /\ nRunners = 0
    /\ clientPools = {}
    /\ statuses = [c \in Tenants |-> IF c = BalancePool THEN [i \in 1..maxRunners |-> i] ELSE <<>>]
    /\ nReserved = [c \in Tenants |-> 0]
    /\ st = [i \in StatusIds |-> NewStatus]
    /\ ready = {}
    /\ issued = 0
    /\ th = EmptyBag
    /\ StatsInit
    /\ PoolOf("balance")

NextStats ==
    \/ \E w \in StatusIds : RunRecordsStats(w) /\ UNCHANGED <<pool, rr, pipe, queryVars>>
    \/ StatsScaleUp /\ UNCHANGED <<pool, rr, pipe, queryVars>>
    \/ StatsScaleDownPop /\ UNCHANGED <<pool, rr, pipe, queryVars>>
    \/ StatsScaleDownAppend /\ UNCHANGED <<pool, rr, pipe, queryVars>>
    \/ GetStatsCall /\ UNCHANGED <<pool, rr, pipe, queryVars>>
    \/ GetStatsLoop /\ UNCHANGED <<pool, rr, pipe, queryVars>>
    \/ GetStatsGet /\ UNCHANGED <<pool, rr, pipe, queryVars>>
    \/ GetStatsReturn /\ UNCHANGED <<pool, rr, pipe, queryVars>>

\* a pool's statistics while the pool is scaled
SpecStats == InitStats /\ [][NextStats]_vars

\* PolicyExclusive.__init__(nRunner)
Init ==
    /\ maxRunners \in 1..MaxRunners
    /\ nRunners = 0
    /\ clientPools = {}
    /\ statuses = [c \in Tenants |-> <<>>]
    /\ nReserved = [c \in Tenants |-> 0]
    /\ st = [i \in StatusIds |-> NewStatus]
    /\ ready = {}
    /\ issued = 0
    /\ th = EmptyBag
    /\ NoStats
    /\ PoolOf("exclusive")

Next ==
    \/ \E c \in Tenants : GetRunnerExclusive(c) /\ UNCHANGED restVars
    \/ \E r \in Calls : Pick(r) /\ UNCHANGED restVars
    \/ \E r \in Calls : CvWoken(r) /\ UNCHANGED restVars
    \/ \E r \in Calls : PostWait(r) /\ UNCHANGED restVars
    \/ \E r \in Calls : Lookup(r) /\ UNCHANGED restVars
    \/ \E r \in Calls : MakeRoom(r) /\ UNCHANGED restVars
    \/ \E r \in Calls : ScaleUpAfterEviction(r) /\ UNCHANGED restVars
    \/ \E r \in Calls : UpdateRef(r) /\ UNCHANGED restVars
    \/ \E r \in Calls : UpdateState(r) /\ UNCHANGED restVars
    \/ \E r \in Calls : Return(r) /\ UNCHANGED restVars

\* runner_policy = 'exclusive'
Spec == Init /\ [][Next]_vars

\* ---- stand-alone PolicyBalance

\* PolicyBalance.__init__(nRunner)
InitBalance ==
    /\ maxRunners = BalanceRunners
    /\ nRunners = 0
    /\ clientPools = {}
    /\ statuses = [c \in Tenants |-> IF c = BalancePool THEN [i \in 1..BalanceRunners |-> i] ELSE <<>>]
    /\ nReserved = [c \in Tenants |-> 0]
    /\ st = [i \in StatusIds |-> NewStatus]
    /\ ready = {}
    /\ issued = 0
    /\ th = EmptyBag
    /\ NoStats
    /\ PoolOf("balance")

\* runnerPool.run line 572 -> PolicyBalance.getRunner(clientID), no timeout
GetRunnerBalance ==
    /\ BagCardinality(th) < NThreads
    /\ issued < MaxRequests
    /\ th' = th (+) SetToBag({NewCall(BalancePool, "bal")})
    /\ issued' = issued + 1
    /\ UNCHANGED <<maxRunners, nRunners, clientPools, statuses, nReserved, st, ready>>

NextBalance ==
    \/ GetRunnerBalance /\ UNCHANGED restVars
    \/ \E r \in Calls : Pick(r) /\ UNCHANGED restVars
    \/ \E r \in Calls : CvWoken(r) /\ UNCHANGED restVars
    \/ \E r \in Calls : PostWait(r) /\ UNCHANGED restVars
    \/ \E r \in Calls : Lookup(r) /\ UNCHANGED restVars
    \/ \E r \in Calls : UpdateRef(r) /\ UNCHANGED restVars
    \/ \E r \in Calls : UpdateState(r) /\ UNCHANGED restVars
    \/ \E r \in Calls : Return(r) /\ UNCHANGED restVars

\* runner_policy = 'balance'
SpecBalance == InitBalance /\ [][NextBalance]_vars

\* ---- runnerPool: construction, and run with its inputs and outputs
\*
\* A call of run carries, besides the locals of NewCall, its inputRefs (their
\* number nIn, and how many are not yet in the object store), nReturn, how
\* many of its outputs are in the object store (they arrive in order, so the
\* first is the one PolicyBalance.update stores in status.ref), and the value
\* policy.getRunner returned.  Python values are kept with their type:
\* <<"actor", i>> is the handle of actor i, <<"pair", i, h>> a tuple of two.
\* A Ray task starts once its arguments are ready, and ray.wait reports only
\* objects that are in the store.

Modes == {"task", "actor", "kaas"}
Policies == {"rr", "exclusive", "balance"}

\* what benchConfig can hold under a key: a known value, another one, or
\* nothing (the key is missing)
ConfigModes == Modes \cup {"other", "missing"}
ConfigPolicies == Policies \cup {"other", "missing"}

\* fault injection for C19: a construction that does not look at the policy
runnerPoolInitAnyPolicy(mode, policy) ==
    IF mode = "missing" \/ policy = "missing" THEN "KeyError"
    ELSE IF mode \notin Modes THEN "ValueError"
    ELSE IF mode # "task" THEN policy
    ELSE "none"

\* runnerPool.__init__ lines 544-558: the policy the pool ends up with
\* ("none": self.policy is not set), or the exception construction ends with
runnerPoolInit(mode, policy) ==
    IF mode = "missing" \/ policy = "missing" THEN "KeyError"
    ELSE IF mode \notin Modes THEN "ValueError"
    ELSE IF mode # "task"
    THEN IF policy \in Policies THEN policy ELSE "ValueError"
    ELSE "none"

\* runnerPool(nRunner, benchConfig) is constructed
Construct ==
    /\ pool.state = "config"
    /\ LET made == runnerPoolInit(pool.mode, pool.policy)
       IN /\ pool' = IF made \in {"KeyError", "ValueError"}
                     THEN [pool EXCEPT !.state = "failed"]
                     ELSE [pool EXCEPT !.state = "ready", !.made = made]
          /\ statuses' = IF made = "balance"
                         THEN [statuses EXCEPT ![BalancePool] = [i \in 1..maxRunners |-> i]]
                         ELSE statuses
          /\ rr' = IF made = "rr" THEN NewRR(maxRunners) ELSE rr
    /\ UNCHANGED <<maxRunners, nRunners, clientPools, nReserved, st, ready, issued, th, statsVars>>

\* which branch of run a call of this pool takes
RunMode == IF pool.made = "none" THEN "task" ELSE IF pool.made = "rr" THEN "rr" ELSE "bal"

\* a call of runnerPool.run(nReturn, clientID, inputRefs, ...): in mode 'task'
\* line 566 submits the task at once and inputRefs is not looked at, else
\* line 569 waits for the inputs
NewRun(m, nIn, nReturn) ==
    IF m = "task"
    THEN [NewCall(BalancePool, m) EXCEPT !.pc = "await"]
            @@ [nIn |-> 0, inPending |-> 0, nReturn |-> nReturn, outReady |-> 0, ret |-> <<>>]
    ELSE [NewCall(BalancePool, m) EXCEPT !.pc = "inputs"]
            @@ [nIn |-> nIn, inPending |-> nIn, nReturn |-> nReturn, outReady |-> 0, ret |-> <<>>]

\* a thread of the actor takes up a call of run
RunCall(nIn, nReturn, requests) ==
    /\ pool.state = "ready"
    /\ BagCardinality(th) < NThreads
    /\ issued < requests
    /\ th' = th (+) SetToBag({NewRun(RunMode, nIn, nReturn)})
    /\ issued' = issued + 1
    /\ UNCHANGED <<maxRunners, nRunners, clientPools, statuses, nReserved, st, ready,
                   statsVars, pool, rr>>

\* a call of run in mode 'task' or with the rr policy (a pool with the
\* balance policy is followed in SpecRun, one with the exclusive policy in Spec)
Run(nIn, nReturn) ==
    /\ pool.made \notin {"balance", "exclusive"}
    /\ RunCall(nIn, nReturn, PoolRequests)

\* a call of run of a pool configured with the balance policy
RunBalance(nIn, nReturn) ==
    /\ pool.policy = "balance"
    /\ RunCall(nIn, nReturn, RunRequests)

\* the task that makes one of the call's inputs has finished
InputReady(r) ==
    /\ r.inPending > 0
    /\ Local(r, [r EXCEPT !.inPending = @ - 1])
    /\ UNCHANGED restVars

\* fault injection for C15: ray.wait(inputRefs), num_returns left at 1
InputsWaitedOne(r) == r.nIn - r.inPending >= 1

\* line 569: ray.wait(inputRefs, num_returns=len(inputRefs)) returns
InputsWaited(r) == r.nIn - r.inPending >= r.nIn

\* (inputRefs is not used again: its length is forgotten)
WaitInputs(r) ==
    /\ r.pc = "inputs"
    /\ InputsWaited(r)
    /\ Local(r, [r EXCEPT !.pc = IF r.mode = "rr" THEN "getRunner" ELSE "pick", !.nIn = 0])
    /\ UNCHANGED restVars

\* a call of run ends with an exception
Raised == [pool EXCEPT !.raised = @ + 1]

\* a step of PolicyBalance.getRunner / update inside run: the call may end
\* with an exception
InRun ==
    /\ pool' = IF BagCardinality(th') < BagCardinality(th) THEN Raised ELSE pool
    /\ UNCHANGED <<statsVars, rr>>

\* fault injection for C13: the cursor moves by two
rrNextTwo(last, n) == (last + 2) % n

\* PolicyRR.getRunner line 271: the cursor after this call
rrNext(last, n) == (last + 1) % n

\* PolicyRR.getRunner lines 269-274 (one step: it runs under PolicyRR.lock)
RRGetRunner(r) ==
    /\ r.pc = "getRunner"
    /\ IF rr.n = 0
       THEN \* ZeroDivisionError
            /\ Raise(r)
            /\ pool' = Raised
            /\ UNCHANGED <<statsVars, rr>>
       ELSE LET last == rrNext(rr.last, rr.n)
            IN /\ rr' = [rr EXCEPT !.last = last, !.order = Append(@, last)]
               /\ Local(r, [r EXCEPT !.pc = "unpack", !.ret = <<"actor", last>>])
               /\ UNCHANGED <<statsVars, pool>>

\* runnerPool.run line 572: `runActor, handle = self.policy.getRunner(clientID)`
\* with the value PolicyRR.getRunner returned, then lines 573-582
Unpack(r) ==
    /\ r.pc = "unpack"
    /\ IF r.ret[1] = "pair"
       THEN \* submit the request to runActor; PolicyRR.update does nothing;
            \* lines 587-590 wait for the outputs
            /\ Local(r, [r EXCEPT !.pc = "await", !.ret = <<>>])
            /\ UNCHANGED pool
       ELSE \* TypeError: an actor handle is not iterable
            /\ Raise(r)
            /\ pool' = Raised
    /\ UNCHANGED <<statsVars, rr>>

\* the worker (or the task) has put the next output of the request in the
\* object store
OutputReady(r) ==
    /\ r.pc \in {"update", "updateState", "await"}
    /\ r.inPending = 0
    /\ r.outReady < r.nReturn
    /\ th' = Set(r, [r EXCEPT !.outReady = @ + 1])
    /\ ready' = Kept(ready \cup ({r.ref} \ {None}), st, th')
    /\ UNCHANGED <<maxRunners, nRunners, clientPools, statuses, nReserved, st, issued, restVars>>

\* fault injection for C17: ray.wait(respFutures), num_returns left at 1
OutputsWaitedOne(r) == r.outReady >= 1

\* lines 587-590: ray.wait([respFutures], num_returns=1) if nReturn == 1,
\* else ray.wait(respFutures, num_returns=len(respFutures)), returns
OutputsWaited(r) == r.outReady >= (IF r.nReturn = 1 THEN 1 ELSE r.nReturn)

\* line 591: return respFutures
ReturnOutputs(r) ==
    /\ OutputsWaited(r)
    /\ Return(r)
    /\ pool' = [pool EXCEPT !.returned = @ + 1]
    /\ UNCHANGED <<statsVars, rr>>

\* a benchConfig and nRunner, the runnerPool not yet constructed
InitPool ==
    /\ maxRunners \in 0..PoolRunners
    /\ nRunners = 0
    /\ clientPools = {}
    /\ statuses = [c \in Tenants |-> <<>>]
    /\ nReserved = [c \in Tenants |-> 0]
    /\ st = [i \in StatusIds |-> NewStatus]
    /\ ready = {}
    /\ issued = 0
    /\ th = EmptyBag
    /\ NoStats
    /\ \E mode \in ConfigModes : \E policy \in ConfigPolicies :
          pool = [state |-> "config", mode |-> mode, policy |-> policy, made |-> "none",
                  returned |-> 0, raised |-> 0]
    /\ rr = NewRR(0)
    /\ pipe = NoPipe
    /\ NoQueries

NextPool ==
    \/ Construct /\ UNCHANGED <<pipe, queryVars>>
    \/ \E nIn \in 1..MaxInputs : \E nReturn \in 1..MaxReturns : Run(nIn, nReturn) /\ UNCHANGED <<pipe, queryVars>>
    \/ \E r \in Calls : InputReady(r) /\ UNCHANGED <<pipe, queryVars>>
    \/ \E r \in Calls : WaitInputs(r) /\ UNCHANGED <<pipe, queryVars>>
    \/ \E r \in Calls : RRGetRunner(r) /\ UNCHANGED <<pipe, queryVars>>
    \/ \E r \in Calls : Unpack(r) /\ UNCHANGED <<pipe, queryVars>>
    \/ \E r \in Calls : OutputReady(r) /\ UNCHANGED <<pipe, queryVars>>
    \/ \E r \in Calls : ReturnOutputs(r) /\ UNCHANGED <<pipe, queryVars>>

\* a runnerPool from its construction, its calls in mode 'task' or with
\* runner_policy 'rr'
SpecPool == InitPool /\ [][NextPool]_vars

\* runnerPool(nRunner, benchConfig) with runner_policy 'balance', constructed
InitRun ==
    /\ maxRunners \in 0..BalanceRunners
    /\ nRunners = 0
    /\ clientPools = {}
    /\ statuses = [c \in Tenants |-> IF c = BalancePool THEN [i \in 1..maxRunners |-> i] ELSE <<>>]
    /\ nReserved = [c \in Tenants |-> 0]
    /\ st = [i \in StatusIds |-> NewStatus]
    /\ ready = {}
    /\ issued = 0
    /\ th = EmptyBag
    /\ NoStats
    /\ \E mode \in Modes :
          pool = [state |-> "ready", mode |-> mode, policy |-> "balance",
                  made |-> runnerPoolInit(mode, "balance"), returned |-> 0, raised |-> 0]
    /\ rr = NewRR(0)
    /\ pipe = NoPipe
    /\ NoQueries

NextRun ==
    \/ \E nIn \in 1..MaxInputs : \E nReturn \in 1..MaxReturns : RunBalance(nIn, nReturn) /\ UNCHANGED <<pipe, queryVars>>
    \/ \E r \in Calls : InputReady(r) /\ UNCHANGED <<pipe, queryVars>>
    \/ \E r \in Calls : WaitInputs(r) /\ UNCHANGED <<pipe, queryVars>>
    \/ \E r \in Calls : Pick(r) /\ InRun /\ UNCHANGED <<pipe, queryVars>>
    \/ \E r \in Calls : CvWoken(r) /\ InRun /\ UNCHANGED <<pipe, queryVars>>
    \/ \E r \in Calls : PostWait(r) /\ ready' \subseteq ready /\ InRun /\ UNCHANGED <<pipe, queryVars>>
    \/ \E r \in Calls : Lookup(r) /\ InRun /\ UNCHANGED <<pipe, queryVars>>
    \/ \E r \in Calls : UpdateRef(r) /\ InRun /\ UNCHANGED <<pipe, queryVars>>
    \/ \E r \in Calls : UpdateState(r) /\ InRun /\ UNCHANGED <<pipe, queryVars>>
    \/ \E r \in Calls : OutputReady(r) /\ UNCHANGED <<pipe, queryVars>>
    \/ \E r \in Calls : ReturnOutputs(r) /\ UNCHANGED <<pipe, queryVars>>

\* the calls of run of a runnerPool configured with runner_policy 'balance',
\* in each mode
SpecRun == InitRun /\ [][NextRun]_vars

\* ---- _runOne
\*
\* _runOne only submits tasks and passes their references on, so what it
\* returns is fixed by its arguments and the model class: it is computed here
\* from them, one operator per stage.

\* f.options(num_returns=k).remote(...): one reference if k is 1, else a list
remote(k) == IF k = 1 THEN PyRef ELSE PyList(k)

\* `if nOut == 1: out = [out]`
listOf(v, k) == IF k = 1 THEN PyList(1) ELSE v

\* the number of object references in a value
NRefs(v) == v.len

\* fault injection for C31: an inline branch without its two assertions
inlineStageUnchecked(p) == IF p.completionQ THEN PyNone ELSE remote(p.nOutPost)

\* lines 601-621: the inline branch
inlineStage(p) ==
    IF p.kaas \/ p.runPool THEN PyRaise("AssertionError")
    ELSE IF p.completionQ THEN PyNone
    ELSE remote(p.nOutPost)

\* lines 624-628
preStage(p) == listOf(remote(p.nOutPre), p.nOutPre)

\* lines 631-656: runPool.run.options(num_returns=nOutRun).remote(...) with
\* runInp packed from the inputs and preOut
runStage(p, preOut) ==
    IF ~p.runPool THEN PyRaise("AttributeError")
    ELSE listOf(remote(p.nOutRun), p.nOutRun)

\* fault injection for C20: post is always submitted
postStageAlways(p, runOut) == listOf(remote(p.nOutPost), p.nOutPost)

\* lines 659-668
postStage(p, runOut) ==
    IF p.noPost THEN runOut
    ELSE listOf(remote(p.nOutPost), p.nOutPost)

\* _runOne: the value returned, or the exception raised
runOne(p) ==
    IF p.inline THEN inlineStage(p)
    ELSE LET runOut == runStage(p, preStage(p))
         IN IF runOut.kind \in Exceptions THEN runOut ELSE postStage(p, runOut)

\* a call of _runOne with these arguments runs
RunOne ==
    /\ pipe.pc = "call"
    /\ pipe' = IF runOne(pipe).kind \in Exceptions
               THEN [pipe EXCEPT !.pc = "raised", !.error = runOne(pipe).kind]
               ELSE [pipe EXCEPT !.pc = "done", !.postOut = runOne(pipe)]
    /\ UNCHANGED <<policyVars, statsVars, pool, rr, queryVars>>

\* the arguments of a call of _runOne and the model class it is called for
InitPipe ==
    /\ maxRunners = BalanceRunners
    /\ nRunners = 0
    /\ clientPools = {}
    /\ statuses = [c \in Tenants |-> <<>>]
    /\ nReserved = [c \in Tenants |-> 0]
    /\ st = [i \in StatusIds |-> NewStatus]
    /\ ready = {}
    /\ issued = 0
    /\ th = EmptyBag
    /\ NoStats
    /\ pool = [state |-> "ready", mode |-> "actor", policy |-> "balance", made |-> "balance",
               returned |-> 0, raised |-> 0]
    /\ rr = NewRR(0)
    /\ \E inline \in BOOLEAN, completionQ \in BOOLEAN, kaas \in BOOLEAN,
          runPool \in BOOLEAN, noPost \in BOOLEAN,
          nOutPre \in 1..MaxOut, nOutRun \in 1..MaxOut, nOutPost \in 1..MaxOut :
          pipe = [pc |-> "call", inline |-> inline, completionQ |-> completionQ,
                  kaas |-> kaas, runPool |-> runPool, noPost |-> noPost,
                  nOutPre |-> nOutPre, nOutRun |-> nOutRun, nOutPost |-> nOutPost,
                  postOut |-> PyNone, error |-> ""]
    /\ NoQueries

NextPipe == RunOne

SpecPipe == InitPipe /\ [][NextPipe]_vars

\* a runnerPool with runner_policy 'exclusive' or 'balance'
InitPolicies == Init \/ InitRun

NextPolicies ==
    \/ pool.policy = "exclusive" /\ Next
    \/ pool.policy = "balance" /\ NextRun

SpecPolicies == InitPolicies /\ [][NextPolicies]_vars

TypeOK ==
    /\ nRunners \in 0..maxRunners
    /\ \A c \in Tenants : nReserved[c] \in 0..(MaxRunners + BalanceRunners + NThreads)
    /\ Cardinality({r \in Calls : r.locked}) <= 1
    /\ \A r \in Calls : r.locked => CopiesIn(r, th) = 1

\* ---- what the claims speak about

\* a caller that was given a worker and has not yet finished update
Holding(r) == r.pc \in {"lookup", "update", "updateState"}

\* position of status object h in the list of pool c, or None once popped
IndexOf(c, h) ==
    IF \E i \in 1..Len(statuses[c]) : statuses[c][i] = h
    THEN CHOOSE i \in 1..Len(statuses[c]) : statuses[c][i] = h
    ELSE None

\* the worker index a holding caller was given
HeldIndex(r) == IF r.pc = "lookup" THEN r.idx ELSE IndexOf(r.pool, r.handle)

\* two different callers are in states r1 and r2
TwoCallers(r1, r2) ==
    /\ r1 \in Calls
    /\ r2 \in Calls
    /\ r1 = r2 => CopiesIn(r1, th) >= 2

\* number of statuses of pool c in state s
Count(c, s) == Cardinality({i \in 1..Len(statuses[c]) : st[statuses[c][i]].state = s})

RECURSIVE SumLen(_)
SumLen(cs) ==
    IF cs = {} THEN 0
    ELSE LET c == CHOOSE x \in cs : TRUE IN Len(statuses[c]) + SumLen(cs \ {c})

\* ---- C1
\* C1: in a PolicyBalance pool used through getRunner and update only, no
\* worker index is held by two callers at once (from getRunner's pick of the
\* index until the caller's update has run).
C1_NoSharedIndex ==
    \A r1 \in Calls : \A r2 \in Calls :
        (TwoCallers(r1, r2) /\ Holding(r1) /\ Holding(r2) /\ r1.pool = r2.pool)
            => HeldIndex(r1) # HeldIndex(r2)

\* a caller holds the only worker while another caller waits for it
C1_Witness ==
    \E r1 \in Calls : \E r2 \in Calls :
        /\ Holding(r1) /\ HeldIndex(r1) # None
        /\ r2.pool = r1.pool /\ r2.pc \in {"cvwait", "cvwoken", "raywait"}

\* ---- C2
\* C2: every (worker, handle) pair that PolicyBalance.getRunner returns has
\* handle.state = RESERVED at the moment it is returned, also when scaleUp or
\* scaleDown ran between the pick of the index and the lookup.
C2_ReturnedHandleReserved ==
    [][\A r \in BagToSet(th') :
          (r.pc = "update" /\ CopiesIn(r, th') > CopiesIn(r, th))
              => st'[r.handle].state = RESERVED]_vars

\* ---- C3
\* C3: at every quiescent point (no call in progress) nReserved equals the
\* number of RESERVED entries of statuses, and the IDLE, RESERVED and BUSY
\* entries add up to len(statuses).
C3_QuiescentCount ==
    th = EmptyBag =>
        \A c \in Tenants :
            /\ nReserved[c] = Count(c, RESERVED)
            /\ Count(c, IDLE) + Count(c, RESERVED) + Count(c, BUSY) = Len(statuses[c])

\* ---- C4
\* C4: nReserved <= len(statuses) in every reachable state, also after
\* scaleDown popped the tail status.
C4_ReservedAtMostLen == \A c \in Tenants : nReserved[c] <= Len(statuses[c])

\* ---- C5
\* C5: a status in state BUSY has a ref, a status in state IDLE or RESERVED has
\* none, in every reachable state (also between update's write of the ref and
\* its state transition).
C5_RefIffBusy ==
    \A i \in Live(statuses, th) : (st[i].state = BUSY) <=> (st[i].ref # None)

\* ---- C6
\* C6: under PolicyExclusive the pools of all tenants together never hold more
\* than maxRunners workers.
C6_PoolsWithinBudget == SumLen(Tenants) <= maxRunners

\* the budget is used up, and a caller has evicted a worker and grown its pool
C6_Witness ==
    /\ SumLen(Tenants) = maxRunners
    /\ \E r \in Calls : r.mode = "evict" /\ r.pc = "pick"

\* ---- C7
\* C7: an eviction shrinks the victim's pool by exactly one worker, then grows
\* the caller's pool by exactly one, and changes neither nRunners nor the size
\* of any other pool (nor does anything else change a pool meanwhile).
Evicting == {r \in Calls : r.pc = "scaleUp"}
EvictingNext == {r \in BagToSet(th') : r.pc = "scaleUp"}
LenDelta(c) == Len(statuses'[c]) - Len(statuses[c])

C7_EvictionFrame ==
    [][/\ (Evicting = {} /\ EvictingNext # {}) =>
            \E r \in EvictingNext :
                /\ r.candidate # r.pool
                /\ nRunners' = nRunners
                /\ \A c \in Tenants : LenDelta(c) = IF c = r.candidate THEN -1 ELSE 0
       /\ (Evicting # {} /\ EvictingNext = {}) =>
            \E r \in Evicting :
                /\ nRunners' = nRunners
                /\ \A c \in Tenants : LenDelta(c) = IF c = r.pool THEN 1 ELSE 0
       /\ (Evicting # {} /\ EvictingNext # {}) =>
            /\ nRunners' = nRunners
            /\ \A c \in Tenants : LenDelta(c) = 0]_vars

\* an eviction is complete: the caller is in the getRunner call of line 491
C7_Witness == \E r \in Calls : r.mode = "evict" /\ r.pc \in {"pick", "lookup"}

\* ---- C8
\* C8: the victim of an eviction had a pool of the maximum size over all
\* tenants, strictly larger than the caller's, and is not the caller; and
\* every tenant tied at the maximum can be the victim.
EvictOf(r, v) == MakeRoom(r) /\ Len(statuses'[v]) < Len(statuses[v])

C8_VictimIsLargest ==
    /\ \A r \in Evicting :
          LET was == Len(statuses[r.candidate]) + 1
          IN /\ r.candidate # r.pool
             /\ was > Len(statuses[r.pool])
             /\ \A c \in Tenants : Len(statuses[c]) <= was
    /\ \A r \in Calls :
          (r.pc = "makeRoom" /\ ~LockHeld /\ nRunners >= maxRunners
             /\ \E c \in Tenants : Len(statuses[c]) > Len(statuses[r.pool]))
          => \A v \in Tenants :
                (\A c \in Tenants : Len(statuses[c]) <= Len(statuses[v]))
                    => ENABLED EvictOf(r, v)

\* a victim was evicted although another tenant was tied with it at the maximum
C8_Witness ==
    \E r \in Evicting : \E c \in Tenants \ {r.candidate, r.pool} :
        Len(statuses[c]) = Len(statuses[r.candidate]) + 1

\* ---- C9
\* C9: PolicyExclusive never holds its mutex while a sub-policy call waits on
\* the status-list condition variable or on the object-store wait.
C9_NoLockWhileWaiting ==
    \A r \in Calls : r.pc \in {"cvwait", "raywait"} => ~r.locked

\* ---- C10
\* C10: the clientPool.getRunner call that _makeRoom makes right after scaling
\* the pool up never blocks: it finds the new worker IDLE and returns it.
C10_GetRunnerAfterScaleUpFindsIdle ==
    \A r \in Calls :
        r.mode \in {"grow", "evict"} =>
            /\ r.pc \notin {"cvwait", "cvwoken", "raywait"}
            /\ r.pc = "pick" =>
                  /\ nReserved[r.pool] # Len(statuses[r.pool])
                  /\ FirstIdle(r.pool) # None

\* ---- C11
\* C11: the reference scaleDown makes for the removed worker's getStats()
\* result is part of exactly one later getStats() result of the policy: once
\* it is neither waiting in pendingActorStats nor held by the getStats call in
\* progress it has been returned once, and it is never returned twice.
C11_ScaleDownStatsOnce ==
    \A d \in 1..audit.downs :
        /\ audit.included[d] <= 1
        /\ (d \notin DownRefs(pendingActorStats) /\ d \notin DownRefs(gs.actorStats))
              => audit.included[d] = 1

\* ---- C12
\* C12: getStats is read-and-reset: the second of two successive getStats
\* calls with no request executed since the first began returns nothing, and
\* every statistic a worker recorded is returned by exactly one getStats call
\* (what was recorded is what was returned plus what workers and pending
\* references still hold).
C12_ReadAndReset ==
    /\ audit.lastClean = 2 => audit.lastResult = 0
    /\ (gs.pc = "idle" /\ toKill = None) =>
          audit.returned + SumStats([i \in 1..Cardinality(StatusIds) |-> [n |-> workerStats[i]]])
             + SumStats(pendingActorStats) = audit.recorded

\* ---- C13
\* how often PolicyRR.getRunner has returned worker w
Handed(w) == Cardinality({k \in 1..Len(rr.order) : rr.order[k] = w})

\* C13 as stated: PolicyRR hands out its workers in cyclic order starting with
\* w0, the k-th getRunner call (k = 0, 1, ...) returning w(k mod n); 9 calls on
\* 3 workers return [w0,w1,w2,w0,w1,w2,w0,w1,w2].
C13_CyclicFromW0 ==
    pool.made = "rr" =>
        /\ \A k \in 0..(Len(rr.order) - 1) : rr.order[k + 1] = k % rr.n
        /\ (rr.n = 3 /\ Len(rr.order) = 9) => rr.order = <<0, 1, 2, 0, 1, 2, 0, 1, 2>>

\* C13, amended: PolicyRR hands out its workers in cyclic order starting with
\* w1: the k-th getRunner call (k = 0, 1, ...) returns w((k+1) mod n); 9 calls
\* on 3 workers return [w1,w2,w0,w1,w2,w0,w1,w2,w0], each worker 3 times.
C13_CyclicFromW1 ==
    pool.made = "rr" =>
        /\ \A k \in 0..(Len(rr.order) - 1) : rr.order[k + 1] = (k + 1) % rr.n
        /\ (rr.n = 3 /\ Len(rr.order) = 9) =>
              /\ rr.order = <<1, 2, 0, 1, 2, 0, 1, 2, 0>>
              /\ \A w \in 0..2 : Handed(w) = 3

\* 9 requests were given a worker by a PolicyRR of 3 workers
C13_Witness == pool.made = "rr" /\ rr.n = 3 /\ Len(rr.order) = 9

\* ---- C14
\* C14: PolicyRR.getRunner returns a pair (worker, None), so a call of run of
\* a pool with the rr policy (and at least one worker) unpacks it, dispatches
\* the request and calls update without failing.
C14_RRRunSucceeds ==
    (pool.made = "rr" /\ rr.n > 0) =>
        /\ pool.raised = 0
        /\ \A r \in Calls : r.pc = "unpack" => r.ret[1] = "pair"

\* ---- C19
\* C19 as stated: construction fails whenever runner_mode is outside
\* {task, actor, kaas} or runner_policy is outside {rr, balance, exclusive},
\* whatever the other value is.
C19_FailsOnAnyUnknown ==
    (pool.state # "config" /\ (pool.mode \notin Modes \/ pool.policy \notin Policies))
        => pool.state = "failed"

\* C19, amended: construction fails exactly when a key is missing, or
\* runner_mode is outside {task, actor, kaas}, or runner_mode is actor or kaas
\* and runner_policy is outside {rr, balance, exclusive}; in mode task the
\* value of runner_policy is not examined and no policy is made.
C19_FailsOnUnknownUsed ==
    pool.state # "config" =>
        /\ pool.state = "failed" <=>
              \/ pool.mode \notin Modes
              \/ pool.policy = "missing"
              \/ pool.mode \in {"actor", "kaas"} /\ pool.policy \notin Policies
        /\ pool.state = "ready" =>
              pool.made = IF pool.mode = "task" THEN "none" ELSE pool.policy

\* a pool in mode task was constructed with an unknown policy
C19_Witness == pool.state = "ready" /\ pool.mode = "task" /\ pool.policy = "other"

\* ---- C15
\* the calls a RESERVED status of the pool can be reserved for: those that
\* picked its index, or were returned it as their handle
ReservedFor(c, s) ==
    {r \in Calls :
        /\ r.pool = c
        /\ \/ r.pc = "lookup" /\ r.idx <= Len(statuses[c]) /\ statuses[c][r.idx] = s
           \/ r.pc \in {"update", "updateState"} /\ r.handle = s}

\* C15: in actor and kaas mode a call of run is still at its wait for the
\* inputs (it has not called policy.getRunner) as long as one of its inputRefs
\* is not ready, and every RESERVED worker is reserved for a call whose inputs
\* are all ready.
C15_InputsBeforeGetRunner ==
    /\ \A r \in Calls :
          (r.mode # "task" /\ r.inPending > 0) =>
              r.pc = "inputs" /\ r.idx = None /\ r.handle = None
    /\ \A s \in Range(statuses[BalancePool]) :
          st[s].state = RESERVED =>
              \E r \in ReservedFor(BalancePool, s) : r.inPending = 0

\* a worker is RESERVED for one call while another call, given two inputs,
\* waits with one of them ready and one pending
C15_Witness ==
    /\ \E r \in Calls : r.pc = "lookup"
    /\ \E r \in Calls : r.pc = "inputs" /\ r.nIn = 2 /\ r.inPending = 1

C17_ReturnAfterAllOutputs ==
    [][pool.returned' # pool.returned =>
          \E r \in Calls :
              /\ r.pc = "await"
              /\ th' = Drop(r)
              /\ r.outReady = r.nReturn]_vars

\* a call has returned, and a call with two outputs waits with only the first
\* of them ready
C17_Witness ==
    /\ pool.returned > 0
    /\ \E r \in Calls : r.pc = "await" /\ r.nReturn = 2 /\ r.outReady = 1

\* ---- C18
\* C18: when policy.getRunner yields no worker (a balance pool without
\* workers) the call of run ends with an error: no call returns, none is
\* dispatched to a worker or reaches update, and no status changes.  And
\* what PolicyExclusive.getRunner (or PolicyBalance.getRunner) hands to run
\* for dispatch and update is a worker with its handle, never (None, None).
C18_NoWorkerNoDispatch ==
    /\ (pool.made = "balance" /\ Len(statuses[BalancePool]) = 0) =>
          /\ pool.returned = 0
          /\ pool.raised + BagCardinality(th) = issued
          /\ \A r \in Calls : r.pc \in {"inputs", "pick"} /\ r.ref = None /\ r.handle = None
          /\ \A s \in StatusIds : st[s] = NewStatus
    /\ \A r \in Calls :
          r.pc \in {"update", "updateState"} => r.handle # None /\ r.ref # None

\* a call of run on a pool without workers has ended with the error
C18_Witness == pool.made = "balance" /\ Len(statuses[BalancePool]) = 0 /\ pool.raised > 0

\* ---- C20
\* the number of references the model class's last stage puts out
NOut(p) == IF p.noPost THEN p.nOutRun ELSE p.nOutPost

\* C20 as stated: every invocation of _runOne that returns (inline or staged,
\* with or without completionQ) returns nOutPost references, or nOutRun if
\* the model has noPost.
C20_ReturnsNOut ==
    pipe.pc = "done" => NRefs(pipe.postOut) = NOut(pipe)

\* C20, amended: a staged invocation returns a list of nOutPost references,
\* or the list of nOutRun references of the run stage if the model has noPost;
\* an inline invocation without completionQ returns nOutPost references
\* (whether or not the model has noPost); an inline invocation with a
\* completionQ returns None.  An inline invocation with a kaas model or with a
\* runPool, and a staged one without a runPool, return nothing: they raise.
C20_ReturnsByBranch ==
    /\ pipe.pc = "done" =>
          /\ ~pipe.inline => pipe.postOut = PyList(NOut(pipe))
          /\ (pipe.inline /\ ~pipe.completionQ) =>
                NRefs(pipe.postOut) = pipe.nOutPost /\ pipe.postOut # PyNone
          /\ (pipe.inline /\ pipe.completionQ) => pipe.postOut = PyNone
    /\ pipe.pc \in {"done", "raised"} =>
          (pipe.pc = "raised" <=>
              \/ pipe.inline /\ (pipe.kaas \/ pipe.runPool)
              \/ ~pipe.inline /\ ~pipe.runPool)

\* an inline invocation with a completionQ has returned
C20_Witness == pipe.pc = "done" /\ pipe.inline /\ pipe.completionQ

\* ---- the queries of a driver: _runOne, the stages it submits, the completion
\* queue and the model cache of the worker that runs them
\*
\* The driver issues its queries one after the other to a runnerPool of one
\* worker (or to none: runPool=None).  A query is the arguments of _runOne;
\* its stages run in data-flow order, each as one step.  A message on the
\* completion queue is kept as the stage that put it and the queryId.  A
\* model instance is kept as the tenant whose modelSpec it was built from.

MaxQueries == 2      \* queries issued by the driver

\* keyword arguments of a dispatch; clientID None when it is not passed
Kw(completionQ, clientID, cacheModel) ==
    [completionQ |-> completionQ, clientID |-> clientID, cacheModel |-> cacheModel]

\* the arguments _runOne can be called with for its n-th query
QueryArgs(n, runPool) ==
    {[inline |-> inline, completionQ |-> completionQ, kaas |-> kaas, runPool |-> runPool,
      noPost |-> noPost, cacheModel |-> cacheModel, clientID |-> clientID, queryId |-> n,
      nOutPre |-> 1, nOutRun |-> 1, nOutPost |-> 1] :
        inline \in BOOLEAN, completionQ \in BOOLEAN, kaas \in BOOLEAN, noPost \in BOOLEAN,
        cacheModel \in BOOLEAN, clientID \in Tenants}

\* fault injection for C21: the run stage is given the queue whenever there is one
runKwargsWithQueue(q) == Kw(q.completionQ, q.clientID, q.cacheModel)

\* _runOne lines 633-653: the kwargs handed to runPool.run for the worker
runKwargs(q) ==
    IF q.kaas
    THEN IF q.completionQ /\ q.noPost
         THEN Kw(TRUE, q.clientID, FALSE)
         ELSE Kw(FALSE, q.clientID, FALSE)
    ELSE IF q.completionQ /\ q.noPost
         THEN Kw(TRUE, q.clientID, q.cacheModel)
         ELSE Kw(FALSE, None, q.cacheModel)

\* fault injection for C30: the fused task is never given the queue
inlinePutsNever(q) == FALSE

\* _runOne lines 611-618: runInline is given the queue if there is one
inlinePuts(q) == q.completionQ

\* completionQ.put((results, queryId)) by a stage
Put(queue, stage, q) == Append(queue, [by |-> stage, queryId |-> q.queryId])

\* runnerPool.run lines 565-582: does the call fail before a worker runs
\* anything?  runTask and runNative take (modelSpec, modelArg, *inputs), so
\* the one-element args of a kaas model do not bind; runKaas takes (req) and
\* no cacheModel; and the value of PolicyRR.getRunner does not unpack
runFails(mode, policy, q) ==
    \/ mode \in {"task", "actor"} /\ q.kaas
    \/ mode = "kaas" /\ ~q.kaas
    \/ mode # "task" /\ policy = "rr"

\* runNative lines 214-218, runTask lines 128-140: the model instance that
\* serves the request, given the cache and the key (the kwarg clientID)
modelServing(mode, cache, kw, q) ==
    IF mode = "task" /\ ~kw.cacheModel THEN q.clientID
    ELSE IF cache[kw.clientID] # None THEN cache[kw.clientID]
    ELSE q.clientID

\* fault injection for C36: a worker that does not keep the model
modelCacheAfterForgets(mode, cache, kw, q) == cache

\* the cache after the request
modelCacheAfter(mode, cache, kw, q) ==
    IF mode = "kaas" \/ (mode = "task" /\ ~kw.cacheModel) THEN cache
    ELSE [cache EXCEPT ![kw.clientID] = modelServing(mode, cache, kw, q)]

\* _runOne lines 594-669 runs: it submits the stages and returns, or raises
SubmitQuery ==
    /\ query.pc = "idle"
    /\ query.n < MaxQueries
    /\ \E q \in QueryArgs(query.n + 1, query.mode # "none") :
          LET out == runOne(q)
          IN query' = [query EXCEPT
                 !.n = @ + 1, !.q = q, !.kw = runKwargs(q), !.ret = out,
                 !.outcome = IF out.kind \in Exceptions THEN out.kind ELSE "",
                 !.pc = IF out.kind \in Exceptions THEN "idle"
                        ELSE IF q.inline THEN "inline" ELSE "pre",
                 !.served = None]
    /\ UNCHANGED <<policyVars, statsVars, pool, rr, pipe, handler, worker, server>>

\* runInline lines 169-193 runs on some worker process
InlineTask ==
    /\ query.pc = "inline"
    /\ query' = [query EXCEPT
           !.pc = "idle", !.outcome = "done",
           !.queue = IF inlinePuts(query.q) THEN Put(@, "inline", query.q) ELSE @]
    /\ UNCHANGED <<policyVars, statsVars, pool, rr, pipe, handler, worker, server>>

\* pre lines 75-84 runs: it is given no queue
PreTask ==
    /\ query.pc = "pre"
    /\ query' = [query EXCEPT !.pc = "run"]
    /\ UNCHANGED <<policyVars, statsVars, pool, rr, pipe, handler, worker, server>>

\* runnerPool.run runs the dispatch: runTask, runActor.runNative or runKaas
\* takes the model from its cache, runs it, and puts the result on the queue
\* if it was given one (_run line 104, runKaas line 230).  For runNative,
\* `runs` counts the requests it got under each key and `inst` the times it
\* called modelSpec.modelClass(modelArg) for one (line 217)
RunTask ==
    /\ query.pc = "run"
    /\ query' =
          IF runFails(query.mode, query.policy, query.q)
          THEN [query EXCEPT !.pc = "idle", !.outcome = "TypeError"]
          ELSE [query EXCEPT
                   !.pc = IF query.q.noPost THEN "idle" ELSE "post",
                   !.outcome = IF query.q.noPost THEN "done" ELSE "",
                   !.served = IF query.mode = "kaas" THEN None
                              ELSE modelServing(query.mode, query.modelCache, query.kw, query.q),
                   !.modelCache = modelCacheAfter(query.mode, @, query.kw, query.q),
                   !.runs = IF query.mode = "actor"
                            THEN [@ EXCEPT ![query.kw.clientID] = @ + 1] ELSE @,
                   !.inst = IF query.mode = "actor" /\ query.modelCache[query.kw.clientID] = None
                            THEN [@ EXCEPT ![query.kw.clientID] = @ + 1] ELSE @,
                   !.stats = IF query.mode = "task" THEN @ ELSE @ \cup {query.kw.clientID},
                   !.queue = IF query.kw.completionQ THEN Put(@, "run", query.q) ELSE @]
    /\ UNCHANGED <<policyVars, statsVars, pool, rr, pipe, handler, worker, server>>

\* post lines 145-166 runs; _runOne lines 665-666 submitted it with
\* completionQ=completionQ
PostTask ==
    /\ query.pc = "post"
    /\ query' = [query EXCEPT
           !.pc = "idle", !.outcome = "done",
           !.queue = IF query.q.completionQ THEN Put(@, "post", query.q) ELSE @]
    /\ UNCHANGED <<policyVars, statsVars, pool, rr, pipe, handler, worker, server>>

\* a driver and the runnerPool it was given (mode "none": it was given none)
InitQuery ==
    /\ maxRunners = BalanceRunners
    /\ nRunners = 0
    /\ clientPools = {}
    /\ statuses = [c \in Tenants |-> <<>>]
    /\ nReserved = [c \in Tenants |-> 0]
    /\ st = [i \in StatusIds |-> NewStatus]
    /\ ready = {}
    /\ issued = 0
    /\ th = EmptyBag
    /\ NoStats
    /\ pool = [state |-> "ready", mode |-> "actor", policy |-> "balance", made |-> "balance",
               returned |-> 0, raised |-> 0]
    /\ rr = NewRR(0)
    /\ pipe = NoPipe
    /\ handler = [pc |-> "none"]
    /\ worker = [pc |-> "none"]
    /\ server = [pc |-> "none"]
    /\ \E mode \in Modes \cup {"none"}, policy \in Policies :
          query = [pc |-> "idle", mode |-> mode, policy |-> policy, n |-> 0,
                   q |-> CHOOSE q \in QueryArgs(0, FALSE) : TRUE,
                   kw |-> Kw(FALSE, None, FALSE), ret |-> PyNone, outcome |-> "",
                   queue |-> <<>>, modelCache |-> [k \in {None} \cup Tenants |-> None],
                   runs |-> [k \in {None} \cup Tenants |-> 0],
                   inst |-> [k \in {None} \cup Tenants |-> 0],
                   stats |-> {}, served |-> None]

NextQuery ==
    \/ SubmitQuery
    \/ InlineTask
    \/ PreTask
    \/ RunTask
    \/ PostTask

SpecQuery == InitQuery /\ [][NextQuery]_vars

\* ---- C21
\* the stage whose output is the query's answer
LastStage(q) == IF q.inline THEN "inline" ELSE IF q.noPost THEN "run" ELSE "post"

\* the messages on the completion queue that carry this queryId
Messages(id) == {i \in 1..Len(query.queue) : query.queue[i].queryId = id}

\* C21: a query issued through _runOne with a completionQ has, once its
\* stages have run, exactly one message (result, queryId) on the queue, put
\* by its last stage: post if the model has a post stage, run if it has
\* noPost (and then no post stage is submitted), the fused task if inline.
\* At no time does the queue hold two messages of one query, a message put by
\* an earlier stage, or a message of a query that was given no queue.
C21_OnePutByLastStage ==
    /\ \A id \in 1..query.n : Cardinality(Messages(id)) <= 1
    /\ \A i \in Messages(query.n) :
          query.q.completionQ /\ query.queue[i].by = LastStage(query.q)
    /\ (query.outcome = "done" /\ query.q.completionQ) =>
          Cardinality(Messages(query.n)) = 1
    /\ query.pc = "post" => ~query.q.noPost

\* two staged queries with a queue have run, one through post and one that
\* ended with the run stage, and each has its message
C21_Witness ==
    /\ query.outcome = "done"
    /\ Len(query.queue) = 2
    /\ {query.queue[1].by, query.queue[2].by} = {"run", "post"}

\* ---- C30
\* C30: on the inline path, with a completionQ the fused task puts
\* (result, queryId) on the queue and _runOne returns None; without one
\* _runOne returns the reference to the task's output and nothing is put.
C30_InlinePutsOrReturns ==
    (query.q.inline /\ (query.pc = "inline" \/ query.outcome = "done")) =>
        IF query.q.completionQ
        THEN /\ query.ret = PyNone
             /\ query.outcome = "done" =>
                   \E i \in Messages(query.n) :
                       Messages(query.n) = {i} /\ query.queue[i].by = "inline"
        ELSE /\ query.ret = remote(query.q.nOutPost)
             /\ Messages(query.n) = {}

\* an inline query with a queue has run, after an inline query without one
C30_Witness ==
    /\ query.q.inline /\ query.q.completionQ /\ query.outcome = "done"
    /\ query.n = 2 /\ Len(query.queue) = 1

\* ---- C22
\* C22: the staged native path hands the tenant's id to the worker with every
\* dispatch, so the worker files the model and the statistics under the
\* requesting tenant, and a request is never served by a model instance that
\* was created for another tenant.
C22_ServedByOwnModel ==
    /\ (query.pc \in {"pre", "run"} /\ ~query.q.kaas) => query.kw.clientID = query.q.clientID
    /\ query.served # None => query.served = query.q.clientID
    /\ None \notin query.stats

\* ---- handleCompletion and the completion queue of an mlperfRunner
\*
\* runBatch issues N queries, whose last stages put their results on the
\* queue whenever they finish, in any order; stop puts the sentinel
\* (nIssued, None).  A
\* message is [int |-> is resp an int, val |-> nIssued or the queryId].
\* targetComplete = None is kept as -1: ncomplete is never negative, so it
\* compares unequal to it as it does to None.

MaxResults == 3      \* largest number of queries issued before stop
MaxLate == 1         \* messages put on the queue after the handler has exited

\* fault injection for C23: a handler that leaves as soon as it was told to
loopGoesOnUntilTold(h) == ~h.wrapItUp

\* handleCompletion line 837: `while not wrapItUp or ncomplete != targetComplete`
loopGoesOn(h) == ~h.wrapItUp \/ h.ncomplete # h.targetComplete

\* fault injection for C40: a handler that breaks on every sentinel
handleOneBreaksOnSentinel(h, m) ==
    IF m.int
    THEN [h EXCEPT !.targetComplete = m.val, !.pc = "exited"]
    ELSE LET h2 == [h EXCEPT !.ncomplete = @ + 1, !.acked[m.val] = @ + 1]
         IN [h2 EXCEPT !.pc = IF loopGoesOn(h2) THEN "loop" ELSE "exited"]

\* handleCompletion lines 839-859: one turn of the loop on the message `m`
handleOne(h, m) ==
    IF m.int
    THEN IF h.ncomplete = m.val
         THEN [h EXCEPT !.targetComplete = m.val, !.pc = "exited"]
         ELSE LET h2 == [h EXCEPT !.targetComplete = m.val, !.wrapItUp = TRUE]
              IN [h2 EXCEPT !.pc = IF loopGoesOn(h2) THEN "loop" ELSE "exited"]
    ELSE LET h2 == [h EXCEPT !.ncomplete = @ + 1, !.acked[m.val] = @ + 1]
         IN [h2 EXCEPT !.pc = IF loopGoesOn(h2) THEN "loop" ELSE "exited"]

\* the last stage of a query puts (result, queryId) on the queue
PutResult ==
    /\ handler.pc # "none"
    /\ \E id \in (1..handler.nIssued) \ handler.put :
          handler' = [handler EXCEPT
              !.put = @ \cup {id},
              !.queue = Append(@, [int |-> FALSE, val |-> id])]
    /\ UNCHANGED <<policyVars, statsVars, pool, rr, pipe, query, worker, server>>

\* mlperfRunner.stop line 924: completionQueue.put((self.nIssued, None))
PutSentinel ==
    /\ handler.pc # "none"
    /\ ~handler.stopped
    /\ handler' = [handler EXCEPT
           !.stopped = TRUE,
           !.queue = Append(@, [int |-> TRUE, val |-> handler.nIssued])]
    /\ UNCHANGED <<policyVars, statsVars, pool, rr, pipe, query, worker, server>>

\* something is put on the queue after the handler has exited
PutLate ==
    /\ handler.pc = "exited"
    /\ handler.late < MaxLate
    /\ handler' = [handler EXCEPT
           !.late = @ + 1,
           !.queue = Append(@, [int |-> FALSE, val |-> handler.nIssued + handler.late + 1])]
    /\ UNCHANGED <<policyVars, statsVars, pool, rr, pipe, query, worker, server>>

\* handleCompletion line 839: queue.get() returns the head of the queue
HandlerGet ==
    /\ handler.pc = "loop"
    /\ handler.queue # <<>>
    /\ handler' = handleOne([handler EXCEPT !.queue = Tail(@)], Head(handler.queue))
    /\ UNCHANGED <<policyVars, statsVars, pool, rr, pipe, query, worker, server>>

\* mlperfRunner.start lines 890-893, and the number of queries runBatch issues
InitCompletion ==
    /\ maxRunners = BalanceRunners
    /\ nRunners = 0
    /\ clientPools = {}
    /\ statuses = [c \in Tenants |-> <<>>]
    /\ nReserved = [c \in Tenants |-> 0]
    /\ st = [i \in StatusIds |-> NewStatus]
    /\ ready = {}
    /\ issued = 0
    /\ th = EmptyBag
    /\ NoStats
    /\ pool = [state |-> "ready", mode |-> "actor", policy |-> "balance", made |-> "balance",
               returned |-> 0, raised |-> 0]
    /\ rr = NewRR(0)
    /\ pipe = NoPipe
    /\ query = [pc |-> "none"]
    /\ worker = [pc |-> "none"]
    /\ server = [pc |-> "none"]
    /\ \E n \in 0..MaxResults :
          handler = [pc |-> IF loopGoesOn([wrapItUp |-> FALSE, ncomplete |-> 0,
                                           targetComplete |-> -1])
                            THEN "loop" ELSE "exited",
                     ncomplete |-> 0, targetComplete |-> -1, wrapItUp |-> FALSE,
                     queue |-> <<>>, acked |-> [i \in 1..(MaxResults + MaxLate) |-> 0],
                     nIssued |-> n, put |-> {}, stopped |-> FALSE, late |-> 0]

NextCompletion ==
    \/ PutResult
    \/ PutSentinel
    \/ PutLate
    \/ HandlerGet

\* every query's last stage finishes, stop is called, and the handler thread runs
SpecCompletion ==
    /\ InitCompletion
    /\ [][NextCompletion]_vars
    /\ WF_vars(PutResult)
    /\ WF_vars(PutSentinel)
    /\ WF_vars(HandlerGet)

\* ---- C23
\* C23: whatever the order in which the N results and the sentinel N arrive
\* on the queue, the handler acknowledges each of the N results exactly once
\* and then exits; until then it has acknowledged no result twice, and what
\* is put on the queue after its exit is never consumed.
C23_AcksEachOnceThenExits ==
    /\ [](\A i \in 1..(MaxResults + MaxLate) : handler.acked[i] <= 1)
    /\ [](handler.pc = "exited" =>
            \A i \in 1..(MaxResults + MaxLate) :
                handler.acked[i] = IF i <= handler.nIssued THEN 1 ELSE 0)
    /\ [][handler.pc = "exited" =>
            /\ handler'.pc = "exited"
            /\ handler'.acked = handler.acked
            /\ Len(handler'.queue) >= Len(handler.queue)]_vars
    /\ <>(handler.pc = "exited")

\* the sentinel arrived before the last result, the handler acknowledged all
\* of them and exited, and a message put afterwards is still on the queue
C23_Witness ==
    /\ handler.pc = "exited"
    /\ handler.wrapItUp
    /\ handler.ncomplete = MaxResults
    /\ Len(handler.queue) = 1

\* ---- C24
\* C24: a call of PolicyBalance.getRunner with a timeout that has returned
\* (None, None) holds no worker, and a call with a timeout is never in a wait
\* that its timeout does not end, whatever the states of the workers (also
\* when every worker is RESERVED).
C24_TimedCallNeverWaitsUnbounded ==
    \A r \in Calls :
        /\ r.pc = "makeRoom" => r.idx = None /\ r.handle = None
        /\ HasTimeout(r) => r.pc # "cvwait"

\* ---- C25
\* the requests submitted to worker w (line 575 or 577) that nothing has yet
\* seen finished: those of callers between dispatch and update, and the one
\* its status refers to
Unfinished(w) ==
    ({r.ref : r \in {x \in Calls : x.pc \in {"update", "updateState"} /\ x.handle = w}}
        \cup {st[w].ref}) \ ({None} \cup ready)

\* the calls of run that have dispatched a request through pool c and still
\* wait for its outputs
InFlight(c) ==
    {r \in Calls : r.pool = c /\ r.pc \in {"update", "updateState", "await"} /\ r.ref \notin ready}

\* C25: under PolicyBalance, alone or as a tenant's sub-pool of
\* PolicyExclusive, no worker has more than one request that was dispatched
\* to it and has not finished, and the unfinished requests dispatched through
\* a pool are never more than the pool has workers.
C25_OneRequestPerWorker ==
    /\ \A w \in StatusIds : Cardinality(Unfinished(w)) <= 1
    /\ \A c \in Tenants : Cardinality(InFlight(c)) <= Len(statuses[c])

\* ---- one runActor of a PolicyBalance, from its creation to its end
\*
\* The actor runs the calls submitted to it one at a time, in the order they
\* were submitted (all come from the runnerPool process).  A call is
\* [op |-> "run", id |-> n], [op |-> "getStats", id |-> 0] or
\* [op |-> "terminate", id |-> 0].  run calls come from runnerPool.run line
\* 575/577, also from a caller that looked the actor up before scaleDown
\* popped it; getStats and terminate come from scaleDown.

MaxDispatch == 3     \* requests dispatched to the actor

\* fault injection for C26: a call that overtakes those submitted before it
submitFirst(queue, call) == <<call>> \o queue

\* actor.method.remote(): the call joins the actor's queue
submit(queue, call) == Append(queue, call)

\* runnerPool.run line 575/577: a request is dispatched to the actor
Dispatch ==
    /\ worker.pc # "none"
    /\ worker.dispatched < MaxDispatch
    /\ worker' = IF worker.pc = "exited"
                 THEN \* the actor is gone: the request fails
                      [worker EXCEPT !.dispatched = @ + 1,
                                     !.failed = @ \cup {worker.dispatched + 1}]
                 ELSE [worker EXCEPT
                          !.dispatched = @ + 1,
                          !.queue = submit(@, [op |-> "run", id |-> worker.dispatched + 1]),
                          !.early = IF worker.scale = "in" THEN @ \cup {worker.dispatched + 1}
                                    ELSE @]
    /\ UNCHANGED <<policyVars, statsVars, pool, rr, pipe, query, handler, server>>

\* scaleDown lines 398-402: pop the actor, submit getStats
ScaleDownGetStats ==
    /\ worker.pc # "none"
    /\ worker.scale = "in"
    /\ worker' = [worker EXCEPT
           !.scale = "popped",
           !.queue = submit(@, [op |-> "getStats", id |-> 0])]
    /\ UNCHANGED <<policyVars, statsVars, pool, rr, pipe, query, handler, server>>

\* scaleDown line 403: toKill.terminate.remote()
ScaleDownTerminate ==
    /\ worker.scale = "popped"
    /\ worker' = [worker EXCEPT
           !.scale = "down",
           !.queue = submit(@, [op |-> "terminate", id |-> 0])]
    /\ UNCHANGED <<policyVars, statsVars, pool, rr, pipe, query, handler, server>>

\* the actor takes the next call: runNative / runKaas (lines 206-233),
\* getStats (lines 238-242) or terminate (lines 235-236: exit_actor, after
\* which the calls still queued fail)
ActorStep ==
    /\ worker.pc = "alive"
    /\ worker.queue # <<>>
    /\ LET call == Head(worker.queue)
           rest == Tail(worker.queue)
       IN worker' =
             CASE call.op = "run" ->
                     [worker EXCEPT !.queue = rest, !.done = @ \cup {call.id}]
               [] call.op = "getStats" ->
                     [worker EXCEPT !.queue = rest, !.statsServed = @ + 1]
               [] OTHER ->
                     [worker EXCEPT
                         !.pc = "exited", !.queue = <<>>,
                         !.failed = @ \cup {rest[i].id : i \in {j \in 1..Len(rest) : rest[j].op = "run"}},
                         !.statsLost = @ + Cardinality({j \in 1..Len(rest) : rest[j].op = "getStats"})]
    /\ UNCHANGED <<policyVars, statsVars, pool, rr, pipe, query, handler, server>>

\* runActor.remote() in PolicyBalance.__init__ or scaleUp
InitWorker ==
    /\ maxRunners = BalanceRunners
    /\ nRunners = 0
    /\ clientPools = {}
    /\ statuses = [c \in Tenants |-> <<>>]
    /\ nReserved = [c \in Tenants |-> 0]
    /\ st = [i \in StatusIds |-> NewStatus]
    /\ ready = {}
    /\ issued = 0
    /\ th = EmptyBag
    /\ NoStats
    /\ pool = [state |-> "ready", mode |-> "actor", policy |-> "balance", made |-> "balance",
               returned |-> 0, raised |-> 0]
    /\ rr = NewRR(0)
    /\ pipe = NoPipe
    /\ query = [pc |-> "none"]
    /\ handler = [pc |-> "none"]
    /\ server = [pc |-> "none"]
    /\ worker = [pc |-> "alive", scale |-> "in", queue |-> <<>>, dispatched |-> 0,
                 early |-> {}, done |-> {}, failed |-> {}, statsServed |-> 0, statsLost |-> 0]

NextWorker ==
    \/ Dispatch
    \/ ScaleDownGetStats
    \/ ScaleDownTerminate
    \/ ActorStep

SpecWorker == InitWorker /\ [][NextWorker]_vars

\* ---- C26
\* C26: when scaleDown removes a worker, every request dispatched to it
\* before runs to completion before the worker terminates, and the worker
\* serves scaleDown's getStats before its terminate: none of those requests
\* fails because the actor has exited, and the statistics are not lost.
C26_DrainsBeforeTerminate ==
    /\ worker.early \cap worker.failed = {}
    /\ worker.statsLost = 0
    /\ worker.pc = "exited" => worker.early \subseteq worker.done /\ worker.statsServed = 1

\* the worker was removed with requests still queued, ran them, served
\* getStats and exited
C26_Witness ==
    /\ worker.pc = "exited"
    /\ Cardinality(worker.early) >= 2
    /\ worker.statsServed = 1

\* ---- the order of arrival of the calls of PolicyExclusive.getRunner
\*
\* As Spec, with each call numbered as it arrives (seq).

\* runnerPool.run -> PolicyExclusive.getRunner lines 504-511, the n-th call
GetRunnerOrdered(c) ==
    /\ BagCardinality(th) < NThreads
    /\ issued < MaxRequests
    /\ ~LockHeld
    /\ c \in clientPools \/ \A d \in Tenants \ clientPools : c <= d
    /\ clientPools' = clientPools \cup {c}
    /\ th' = th (+) SetToBag({NewCall(c, "fast") @@ [seq |-> issued + 1]})
    /\ issued' = issued + 1
    /\ UNCHANGED <<maxRunners, nRunners, statuses, nReserved, st, ready>>

NextOrdered ==
    \/ \E c \in Tenants : GetRunnerOrdered(c) /\ UNCHANGED restVars
    \/ \E r \in Calls : Pick(r) /\ UNCHANGED restVars
    \/ \E r \in Calls : CvWoken(r) /\ UNCHANGED restVars
    \/ \E r \in Calls : PostWait(r) /\ UNCHANGED restVars
    \/ \E r \in Calls : Lookup(r) /\ UNCHANGED restVars
    \/ \E r \in Calls : MakeRoom(r) /\ UNCHANGED restVars
    \/ \E r \in Calls : ScaleUpAfterEviction(r) /\ UNCHANGED restVars
    \/ \E r \in Calls : UpdateRef(r) /\ UNCHANGED restVars
    \/ \E r \in Calls : UpdateState(r) /\ UNCHANGED restVars
    \/ \E r \in Calls : Return(r) /\ UNCHANGED restVars

SpecOrdered == Init /\ [][NextOrdered]_vars

\* ---- C27
\* the call has been granted a worker: pickActorBalanced has returned an index
Granted(r) == r.pc \in {"lookup", "update", "updateState", "await"}

\* C27: under PolicyExclusive the workers of a tenant's sub-policy are granted
\* to the tenant's calls in the order the calls arrived: no call is granted a
\* worker while an earlier call of the same tenant is still without one.
C27_GrantsInArrivalOrder ==
    \A r1, r2 \in Calls :
        (r1.pool = r2.pool /\ r1.seq < r2.seq /\ Granted(r2)) => Granted(r1)

\* ---- PolicyExclusive(4) with two tenants that fill it and a third that arrives
\*
\* As Spec, for a pool of four workers and the requests of WarmScenario, each
\* the next to arrive: two of tenant 1, two of tenant 2, then one of tenant 3.

\* nRunner of the pool
WarmRunners == 4
\* the tenants of the requests, in order of arrival
WarmScenario == <<1, 1, 2, 2, 3>>

\* runnerPool.run -> PolicyExclusive.getRunner lines 504-511, the next request
GetRunnerWarm ==
    /\ BagCardinality(th) < NThreads
    /\ issued < Len(WarmScenario)
    /\ ~LockHeld
    /\ clientPools' = clientPools \cup {WarmScenario[issued + 1]}
    /\ th' = th (+) SetToBag({NewCall(WarmScenario[issued + 1], "fast")})
    /\ issued' = issued + 1
    /\ UNCHANGED <<maxRunners, nRunners, statuses, nReserved, st, ready>>

\* PolicyExclusive.__init__(4)
InitWarm ==
    /\ maxRunners = WarmRunners
    /\ nRunners = 0
    /\ clientPools = {}
    /\ statuses = [c \in Tenants |-> <<>>]
    /\ nReserved = [c \in Tenants |-> 0]
    /\ st = [i \in StatusIds |-> NewStatus]
    /\ ready = {}
    /\ issued = 0
    /\ th = EmptyBag
    /\ NoStats
    /\ PoolOf("exclusive")

NextWarm ==
    \/ GetRunnerWarm /\ UNCHANGED restVars
    \/ \E r \in Calls : Pick(r) /\ UNCHANGED restVars
    \/ \E r \in Calls : CvWoken(r) /\ UNCHANGED restVars
    \/ \E r \in Calls : PostWait(r) /\ UNCHANGED restVars
    \/ \E r \in Calls : Lookup(r) /\ UNCHANGED restVars
    \/ \E r \in Calls : MakeRoom(r) /\ UNCHANGED restVars
    \/ \E r \in Calls : ScaleUpAfterEviction(r) /\ UNCHANGED restVars
    \/ \E r \in Calls : UpdateRef(r) /\ UNCHANGED restVars
    \/ \E r \in Calls : UpdateState(r) /\ UNCHANGED restVars
    \/ \E r \in Calls : Return(r) /\ UNCHANGED restVars

SpecWarm == InitWarm /\ [][NextWarm]_vars

\* ---- C28
\* the sizes of the pools of tenants 1 and 2
WarmSizes == {Len(statuses[1]), Len(statuses[2])}

\* C28: with maxRunners = 4, once tenants 1 and 2 hold two workers each, the
\* request of the new tenant 3 evicts exactly one worker, from tenant 1 or
\* tenant 2; tenant 3's pool then has one worker, the total stays 4, and
\* tenant 3's getRunner returns its worker without waiting.
C28_ThirdTenantEvictsOne ==
    /\ SumLen(Tenants) <= WarmRunners
    /\ Len(statuses[3]) <= 1
    /\ \A r \in Calls :
          r.pool = 3 =>
              /\ r.pc \notin {"cvwait", "cvwoken", "raywait"}
              /\ (r.mode = "evict" /\ r.pc = "scaleUp") =>
                    /\ r.candidate \in {1, 2}
                    /\ WarmSizes = {1, 2}
                    /\ Len(statuses[3]) = 0
              /\ (r.mode = "evict" /\ r.pc # "scaleUp") =>
                    /\ WarmSizes = {1, 2}
                    /\ Len(statuses[3]) = 1
                    /\ SumLen(Tenants) = WarmRunners
                    /\ nRunners = WarmRunners

\* tenant 3's call has evicted a worker and been handed the one added for it
C28_Witness ==
    \E r \in Calls :
        /\ r.pool = 3 /\ r.mode = "evict" /\ r.pc = "update"
        /\ Len(statuses[3]) = 1
        /\ SumLen(Tenants) = WarmRunners


\* ---- PolicyBalance with all of its workers BUSY
\*
\* A stand-alone PolicyBalance of PairRunners workers, called from up to
\* PairThreads threads, so that a call of getRunner can arrive while every
\* worker runs a request whose caller still waits for the outputs.

PairRunners == 2     \* nRunner
PairThreads == 3     \* threads of the runnerPool actor

InitPair ==
    /\ maxRunners = PairRunners
    /\ nRunners = 0
    /\ clientPools = {}
    /\ statuses = [c \in Tenants |-> IF c = BalancePool THEN [i \in 1..PairRunners |-> i] ELSE <<>>]
    /\ nReserved = [c \in Tenants |-> 0]
    /\ st = [i \in StatusIds |-> NewStatus]
    /\ ready = {}
    /\ issued = 0
    /\ th = EmptyBag
    /\ NoStats
    /\ PoolOf("balance")

\* runnerPool.run line 572 -> PolicyBalance.getRunner(clientID), no timeout
GetRunnerPair ==
    /\ BagCardinality(th) < PairThreads
    /\ issued < MaxRequests
    /\ th' = th (+) SetToBag({NewCall(BalancePool, "bal")})
    /\ issued' = issued + 1
    /\ UNCHANGED <<maxRunners, nRunners, clientPools, statuses, nReserved, st, ready>>

NextPair ==
    \/ GetRunnerPair /\ UNCHANGED restVars
    \/ \E r \in Calls : Pick(r) /\ UNCHANGED restVars
    \/ \E r \in Calls : CvWoken(r) /\ UNCHANGED restVars
    \/ \E r \in Calls : PostWait(r) /\ UNCHANGED restVars
    \/ \E r \in Calls : Lookup(r) /\ UNCHANGED restVars
    \/ \E r \in Calls : UpdateRef(r) /\ UNCHANGED restVars
    \/ \E r \in Calls : UpdateState(r) /\ UNCHANGED restVars
    \/ \E r \in Calls : Return(r) /\ UNCHANGED restVars

SpecPair == InitPair /\ [][NextPair]_vars

\* every worker of the stand-alone PolicyBalance is BUSY
AllBusy == \A i \in 1..Len(statuses[BalancePool]) : st[statuses[BalancePool][i]].state = BUSY

\* this step, getRunner hands worker i to call r
GrantedTo(r, i) == th' = Set(r, [r EXCEPT !.pc = "lookup", !.idx = i, !.outstanding = {}])

\* C29: under PolicyBalance with every worker BUSY, a further getRunner
\* without a timeout is not served by the first scan: it waits in ray.wait on
\* the workers' in-flight first outputs, and is handed the worker whose
\* output ray.wait reported, the first to become ready; the other workers
\* keep their requests.  getRunner and update never change the number of
\* workers.
C29_WaitsForFirstReady ==
    /\ [](Len(statuses[BalancePool]) = PairRunners /\ maxRunners = PairRunners)
    /\ [][\A r \in Calls : \A i \in 1..PairRunners :
            AllBusy /\ GrantedTo(r, i) =>
                /\ r.pc = "raywait"
                /\ st[statuses[BalancePool][i]].ref \in r.outstanding
                /\ \A j \in 1..PairRunners \ {i} :
                      st'[statuses[BalancePool][j]] = st[statuses[BalancePool][j]]]_vars

\* two requests are in flight on the two workers, a third call waited, the
\* output of one became ready and the call now holds that worker, while the
\* other worker still runs its request
C29_Witness ==
    \E r \in Calls, a \in Calls, b \in Calls :
        /\ r.pc = "lookup" /\ a.pc = "await" /\ b.pc = "await"
        /\ st[statuses[BalancePool][r.idx]].state = RESERVED
        /\ a.ref \in ready /\ \A s \in StatusIds : st[s].ref # a.ref
        /\ b.ref \notin ready
        /\ \E j \in 1..PairRunners : /\ j # r.idx
                                     /\ st[statuses[BalancePool][j]] = [state |-> BUSY, ref |-> b.ref]


\* ---- C31
\* C31: _runOne with inline=True is accepted only for a model that is not a
\* kaas model and with no runPool: called with a kaas model or with a runPool
\* it raises AssertionError, no task of the query is submitted and nothing is
\* put on the completionQ for it.
C31_InlineRejected ==
    /\ (query.n > 0 /\ query.q.inline /\ (query.q.kaas \/ query.q.runPool)) =>
          /\ query.outcome = "AssertionError"
          /\ query.pc = "idle"
          /\ Messages(query.n) = {}
    /\ query.pc = "inline" => ~query.q.kaas /\ ~query.q.runPool

\* after a staged query that put its result on the queue, an inline query
\* with the same runPool and a completionQ was refused
C31_Witness ==
    /\ query.n = 2 /\ query.q.inline /\ query.q.runPool /\ query.q.completionQ
    /\ query.outcome = "AssertionError"
    /\ Len(query.queue) = 1


\* ---- serverLoop.handleBarrier
\*
\* The barrier socket hands each message to handleBarrier, which runs to its
\* end on the IOLoop before the next one.  Each peer sends its barrier message
\* once.  The server's runnerPool was constructed from benchConfig, and the
\* barrier asks it for its statistics before it releases the peers.

MaxPeers == 3        \* peers that connect to the barrier socket

Peers == 1..MaxPeers

\* runnerPool.getStats line 561, self.policy.getStats(): in mode 'task' the
\* pool has no policy, and PolicyRR defines no getStats
poolGetStats(made) == IF made \in {"none", "rr"} THEN "AttributeError" ELSE "ok"

\* handleBarrier lines 1031-1045 with the message [clientID] of peer p
handleBarrier(p) ==
    /\ server.pc = "serving"
    /\ p \notin Range(server.readyClients)
    /\ LET readyClients == Append(server.readyClients, p)
       IN server' =
             IF Len(readyClients) # server.numClient
             THEN [server EXCEPT !.readyClients = readyClients]
             ELSE IF poolGetStats(pool.made) # "ok"
             THEN \* ray.get raises: the callback ends at line 1038
                  [server EXCEPT !.readyClients = readyClients, !.raised = @ + 1]
             ELSE [server EXCEPT !.readyClients = readyClients,
                                 !.sent = @ \o readyClients]
    /\ UNCHANGED <<policyVars, statsVars, pool, rr, pipe, query, handler, worker>>

\* serverLoop.__init__ lines 1015-1029: benchConfig and the pool made from it
InitBarrier ==
    /\ maxRunners = BalanceRunners
    /\ nRunners = 0
    /\ clientPools = {}
    /\ statuses = [c \in Tenants |-> <<>>]
    /\ nReserved = [c \in Tenants |-> 0]
    /\ st = [i \in StatusIds |-> NewStatus]
    /\ ready = {}
    /\ issued = 0
    /\ th = EmptyBag
    /\ NoStats
    /\ \E mode \in Modes, policy \in Policies :
          pool = [state |-> "ready", mode |-> mode, policy |-> policy,
                  made |-> runnerPoolInit(mode, policy), returned |-> 0, raised |-> 0]
    /\ rr = NewRR(0)
    /\ pipe = NoPipe
    /\ query = [pc |-> "none"]
    /\ handler = [pc |-> "none"]
    /\ worker = [pc |-> "none"]
    /\ \E numClient \in 1..MaxPeers :
          server = [pc |-> "serving", numClient |-> numClient, readyClients |-> <<>>,
                    sent |-> <<>>, raised |-> 0]

NextBarrier == \E p \in Peers : handleBarrier(p)

SpecBarrier == InitBarrier /\ [][NextBarrier]_vars

\* C32: when the numClient-th peer has sent its barrier message, the server
\* has sent GO exactly once to each peer that has arrived; no GO is sent
\* before numClient peers have arrived, and none of those peers is left
\* without a GO.
C32_BarrierReleasesAll ==
    /\ server.sent # <<>> => Len(server.readyClients) >= server.numClient
    /\ \A p \in Peers : Cardinality({i \in 1..Len(server.sent) : server.sent[i] = p}) <= 1
    /\ Len(server.readyClients) >= server.numClient =>
          \A i \in 1..server.numClient : server.readyClients[i] \in Range(server.sent)


\* ---- C33
\* the workers of pool c that a second scan with the ready reference d
\* observes IDLE: those already IDLE and those whose ref is d
SeenIdle(c, d) ==
    {i \in 1..Len(statuses[c]) :
        st[statuses[c][i]].state = IDLE \/ st[statuses[c][i]].ref = d}

\* what the second scan of call r with the ready reference d leaves behind,
\* when it marks worker `pick` of those it observed IDLE
ScanLeaves(r, d, pick) ==
    LET c == r.pool
    IN /\ \A i \in 1..Len(statuses[c]) :
             st[statuses[c][i]].ref = d => st[statuses[c][i]].state = BUSY
       /\ IF SeenIdle(c, d) = {}
          THEN /\ \E r2 \in BagToSet(th') : r2.pc = "pick" /\ th' = Set(r, r2)
               /\ st' = st
          ELSE /\ \A i \in SeenIdle(c, d) :
                     st'[statuses[c][i]] =
                        [state |-> IF i = pick THEN RESERVED ELSE IDLE, ref |-> None]
               /\ \A i \in (1..Len(statuses[c])) \ SeenIdle(c, d) :
                     st'[statuses[c][i]] = st[statuses[c][i]]
               /\ \E r2 \in BagToSet(th') :
                     r2.pc = "lookup" /\ r2.idx = pick /\ th' = Set(r, r2)

UnderListLock(r) == r.pc \in {"pick", "cvwoken", "raywait", "lookup", "updateState", "makeRoom"}

\* C34: every write to a worker status (its state or its ref) is performed
\* while the status list's lock is held: a step that changes a status in use
\* is a step of a call that holds the lock.
C34_WritesUnderLock ==
    [][(\E s \in Live(statuses, th) : st'[s] # st[s]) =>
          \E r \in Calls : /\ CopiesIn(r, th') < CopiesIn(r, th)
                           /\ UnderListLock(r)]_vars


\* ---- C35
\* call r is on the fast path of PolicyExclusive.getRunner (line 511): inside
\* the sub-pool's getRunner with the short timeout
FastPath(r) == r.mode = "fast" /\ r.pc \in {"pick", "cvwoken", "raywait", "lookup"}

\* C35: the policy starts with nRunners = 0 and no sub-pool; a tenant seen
\* for the first time gets an empty sub-pool; and a step of a call on the
\* fast path changes neither nRunners nor the size of any tenant's pool: if
\* the sub-pool hands out a worker, that worker is what the call goes on with
\* (no scaleUp, no eviction).
C35_FastPathFrame ==
    /\ nRunners = 0 /\ clientPools = {}
    /\ [][/\ \A c \in clientPools' \ clientPools : statuses'[c] = <<>>
          /\ \A r \in Calls :
                (FastPath(r) /\ CopiesIn(r, th') < CopiesIn(r, th)) =>
                    /\ nRunners' = nRunners
                    /\ statuses' = statuses
                    /\ \A r2 \in BagToSet(th') \ Calls :
                          r2.pc = "update" => r2.handle = statuses[r.pool][r.idx]]_vars

\* a call was handed a worker on the fast path and goes on to dispatch
C35_Witness ==
    \E r \in Calls : r.mode = "fast" /\ r.pc = "update" /\ nRunners > 0


\* ---- C36
\* C36: a worker instantiates the model for a tenantID at most once in its
\* lifetime: runNative calls modelClass(arg) only when the tenantID it was
\* given is absent from its cache, stores the instance, serves every later
\* request of that tenantID with it, and never removes or replaces a cache
\* entry.
C36_InstantiatesOnce ==
    /\ [](query.mode = "actor" =>
            \A k \in DOMAIN query.inst :
                /\ query.inst[k] = (IF query.runs[k] > 0 THEN 1 ELSE 0)
                /\ query.modelCache[k] # None <=> query.runs[k] > 0)
    /\ [][query.mode = "actor" =>
            /\ \A k \in DOMAIN query.modelCache :
                  query.modelCache[k] # None => query.modelCache'[k] = query.modelCache[k]
            /\ \A k \in DOMAIN query.runs :
                  query.runs'[k] > query.runs[k] => query.served' = query.modelCache'[k]]_vars

\* a worker has served two requests of one tenantID with one instance
C36_Witness ==
    /\ query.mode = "actor"
    /\ \E k \in DOMAIN query.runs : query.runs[k] = 2 /\ query.inst[k] = 1


\* ---- C40
\* C40: the completion handler never exits before it has received the
\* sentinel; when it exits, the number of acknowledgements it has issued
\* equals the sentinel value; and once it has received the sentinel it has
\* never acknowledged more results than the sentinel value.
C40_ExitsOnSentinelCount ==
    /\ handler.pc = "exited" =>
          /\ handler.targetComplete = handler.nIssued
          /\ handler.ncomplete = handler.targetComplete
    /\ handler.pc # "none" /\ handler.targetComplete # -1 =>
          /\ handler.stopped
          /\ handler.ncomplete <= handler.targetComplete

\* the sentinel arrived after the last of several results: the handler left
\* through the break at line 848
C40_Witness ==
    /\ handler.pc = "exited"
    /\ ~handler.wrapItUp
    /\ handler.nIssued > 1
    /\ handler.ncomplete = handler.nIssued


\* ---- C39
\* C39: a worker returned by PolicyExclusive.getRunner is still a member of
\* its tenant's pool, and has not been sent terminate(), when the caller has
\* dispatched its request to it and calls update: no eviction removes a
\* worker that is RESERVED for a caller.
C39_ReservedWorkerStays ==
    \A r \in Calls :
        r.pc \in {"update", "updateState"} => r.handle \in Range(statuses[r.pool])


\* ---- C37
\* a step of a call of runnerPool.run that is in progress
CallStep ==
    \E r \in Calls :
        \/ Pick(r) \/ CvWoken(r) \/ PostWait(r) \/ Lookup(r) \/ MakeRoom(r)
        \/ ScaleUpAfterEviction(r) \/ UpdateRef(r) \/ UpdateState(r) \/ Return(r)

\* runner_policy = 'exclusive' with fair scheduling: a thread that can take a
\* step takes one, and every dispatched request completes
SpecLive == Spec /\ WF_vars(CallStep /\ UNCHANGED restVars)

\* C37: under PolicyExclusive with maxRunners >= 1 and fair scheduling, every
\* call of getRunner returns a worker and every call of update returns, so
\* every call of run comes to its end and none ends with an exception; no
\* caller sleeps on a pool's condition variable while a worker of the pool is
\* IDLE.
C37_EveryCallReturns ==
    /\ <>[](th = EmptyBag)
    /\ [][\A r \in Calls :
            BagCardinality(th') < BagCardinality(th) /\ CopiesIn(r, th') < CopiesIn(r, th)
                => r.pc = "await"]_vars
    /\ [](\A r \in Calls : r.pc = "cvwait" => FirstIdle(r.pool) = None)


\* ---- PolicyExclusive called from more threads
\*
\* As Spec, with CrowdThreads threads of the runnerPool actor, so that two
\* calls can hold the workers of a pool while a third one evicts from it.

CrowdThreads == 3    \* threads of the runnerPool actor

\* runnerPool.run -> PolicyExclusive.getRunner lines 504-511
GetRunnerCrowd(c) ==
    /\ BagCardinality(th) < CrowdThreads
    /\ issued < MaxRequests
    /\ ~LockHeld
    /\ c \in clientPools \/ \A d \in Tenants \ clientPools : c <= d
    /\ clientPools' = clientPools \cup {c}
    /\ th' = th (+) SetToBag({NewCall(c, "fast")})
    /\ issued' = issued + 1
    /\ UNCHANGED <<maxRunners, nRunners, statuses, nReserved, st, ready>>

NextCrowd ==
    \/ \E c \in Tenants : GetRunnerCrowd(c) /\ UNCHANGED restVars
    \/ \E r \in Calls : Pick(r) /\ UNCHANGED restVars
    \/ \E r \in Calls : CvWoken(r) /\ UNCHANGED restVars
    \/ \E r \in Calls : PostWait(r) /\ UNCHANGED restVars
    \/ \E r \in Calls : Lookup(r) /\ UNCHANGED restVars
    \/ \E r \in Calls : MakeRoom(r) /\ UNCHANGED restVars
    \/ \E r \in Calls : ScaleUpAfterEviction(r) /\ UNCHANGED restVars
    \/ \E r \in Calls : UpdateRef(r) /\ UNCHANGED restVars
    \/ \E r \in Calls : UpdateState(r) /\ UNCHANGED restVars
    \/ \E r \in Calls : Return(r) /\ UNCHANGED restVars

SpecCrowd == Init /\ [][NextCrowd]_vars

\* ---- C38
\* C38: whenever the first scan of pickActorBalanced runs past the
\* all-RESERVED wait and finds no IDLE worker, at least one worker is BUSY:
\* the assertion len(outstanding) != 0 never fails, also after scaleDown
\* shrank the pool while workers were RESERVED.
C38_SomeWorkerBusy ==
    \A r \in Calls :
        (/\ r.pc \in {"pick", "cvwoken"}
         /\ Len(statuses[r.pool]) > 0
         /\ nReserved[r.pool] # Len(statuses[r.pool])
         /\ FirstIdle(r.pool) = None)
            => Outstanding(r.pool) # {}
====
